---- MODULE Spec2Model ----
(***************************************************************************)
(* JASM: the pod/secret reconciliation engine (PodSecretReconciler), the    *)
(* annotation parser, the provider registry and the Kubernetes objects the  *)
(* engine reads and writes.                                                  *)
(*                                                                           *)
(* Go maps (secret data, labels, key mappings) are sets of <<key, value>>    *)
(* pairs with unique keys.                                                   *)
(***************************************************************************)
EXTENDS Integers, Sequences, FiniteSets, TLC

\* ------------------------------------------------------------------ bounds
\* number of pod / secret / source changes made from outside the engine
MaxExt == 3
\* last value of the wall clock (seconds)
MaxTime == 1
\* last resourceVersion the store hands out per secret
MaxRV == 4
\* number of Register calls made on a registry
MaxRegister == 3
\* number of entries written under "keys" in an annotation text
MaxKeys == 2

\* ------------------------------------------------------------ map helpers
Keys(m) == { kv[1] : kv \in m }
Has(m, k) == k \in Keys(m)
Lookup(m, k) == (CHOOSE kv \in m : kv[1] = k)[2]
Put(m, k, v) == { kv \in m : kv[1] # k } \cup { <<k, v>> }

\* --------------------------------------------------------------- constants
AnnotationKey == "jasm.codnod.io/secret-sync"
ManagedByLabel == "app.kubernetes.io/managed-by"
ManagedByValue == "jasm"
SourcePathAnnotation == "jasm.codnod.io/source-path"
SyncedAtAnnotation == "jasm.codnod.io/synced-at"

SecretTypeOpaque == "Opaque"
SecretTypeTLS == "kubernetes.io/tls"

EventReasonSecretSyncSuccess == "SecretSyncSuccess"
EventReasonAnnotationInvalid == "AnnotationInvalid"
EventReasonProviderUnsupported == "ProviderUnsupported"
EventReasonSecretFetchFailed == "SecretFetchFailed"

\* ------------------------------------------------------------- the cluster
Namespaces == {"ns1", "ns2"}
Pods == {"p1", "p2"}
SecretNames == {"s", "Bad_Name"}
\* of these names, those that are DNS-1123 labels (lower-case alphanumerics and
\* '-', alphanumeric at both ends): the names the API accepts for a new secret
DNS1123Labels == {"s"}
SecretKeys == Namespaces \X SecretNames

\* ------------------------------------------- annotation texts (YAML values)
\* A text is the empty string, a text that is not YAML, or a YAML mapping
\* given by the value of each of its keys ("" for a key that is not there).
YamlDoc(provider, path, secretName, keys, namespace) ==
  [kind |-> "yaml", provider |-> provider, path |-> path,
   secretName |-> secretName, keys |-> keys, namespace |-> namespace]
AnnEmpty == [kind |-> "empty", provider |-> "", path |-> "", secretName |-> "",
             keys |-> {}, namespace |-> ""]
AnnMalformed == [AnnEmpty EXCEPT !.kind = "malformed"]
AnnPlain == YamlDoc("aws-secretsmanager", "/a", "s", {}, "")
AnnMapped == YamlDoc("aws-secretsmanager", "/a", "s", {<<"x", "a">>, <<"y", "b">>}, "")
AnnOtherNs == YamlDoc("aws-secretsmanager", "/a", "s", {}, "ns2")
AnnVault == YamlDoc("vault", "/a", "s", {}, "")
AnnNoName == YamlDoc("aws-secretsmanager", "/a", "", {}, "")
AnnNoProvider == YamlDoc("", "/a", "s", {}, "")
AnnNoPath == YamlDoc("aws-secretsmanager", "", "s", {}, "")
AnnNoFields == YamlDoc("", "", "", {}, "")
AnnBadName == YamlDoc("aws-secretsmanager", "/a", "Bad_Name", {}, "")
AnnTexts == {AnnEmpty, AnnMalformed, AnnPlain, AnnMapped, AnnOtherNs, AnnVault, AnnNoName,
             AnnNoProvider, AnnNoPath, AnnNoFields, AnnBadName}

\* the annotations a pod may carry: none, or one of the texts
NoAnnotations == {}
PodAnnotationSets == {NoAnnotations} \cup { {<<AnnotationKey, t>>} : t \in AnnTexts }

\* ------------------------------------------------ the external secret store
\* what the secret at path "/a" may hold
SourceData1 == {<<"a", "v1">>, <<"b", "v1">>}
SourceData2 == {<<"a", "v2">>}
SourceData3 == {<<"c", "v3">>}
SourceDatas == {SourceData1, SourceData2, SourceData3}
\* a SecretString that is not JSON (a plain-text secret), as its characters
PlainSecretString == <<"h", "2">>
\* the source answers with its data or, while err is set, with that error;
\* a malformed response is a SecretString that is not JSON
SourceState(err, data) ==
  [err |-> err, data |-> data,
   text |-> IF err = "MalformedResponse" THEN PlainSecretString ELSE <<>>]
\* the text of the error FetchSecret returns, as the strings it is made of:
\* json.Unmarshal quotes the character at which the SecretString stops being
\* JSON ("invalid character 'h' looking for beginning of value")
FetchSecretError(src) ==
  IF src.err = "MalformedResponse"
    THEN {"failed to parse secret JSON", "invalid character", src.text[1]}
    ELSE {"failed to fetch secret from AWS Secrets Manager", src.err}
PermanentFetchErrors == {"NotFound", "AccessDenied", "MalformedResponse"}
TransientFetchErrors == {"Throttled", "Unavailable", "Cancelled"}
FetchErrors == PermanentFetchErrors \cup TransientFetchErrors

\* ------------------------------------------- the SecretString and its JSON
\* a JSON value: a string, a number (a non-negative integer here), a boolean,
\* null, an array (its items) or an object (its members <<key, value>>, in
\* the order of their keys, which is the order json.Marshal writes a map in)
JsonValue(t, s, n, b, items, members) ==
  [t |-> t, s |-> s, n |-> n, b |-> b, items |-> items, members |-> members]
JString(s) == JsonValue("string", s, 0, FALSE, <<>>, <<>>)
JNumber(n) == JsonValue("number", "", n, FALSE, <<>>, <<>>)
JBool(b) == JsonValue("bool", "", 0, b, <<>>, <<>>)
JNull == JsonValue("null", "", 0, FALSE, <<>>, <<>>)
JArray(items) == JsonValue("array", "", 0, FALSE, items, <<>>)
JObject(members) == JsonValue("object", "", 0, FALSE, <<>>, members)

\* the decimal digits of n, and the text of a row of digits
RECURSIVE Digits(_)
Digits(n) == IF n < 10 THEN <<n>> ELSE Append(Digits(n \div 10), n % 10)
RECURSIVE DigitsText(_)
DigitsText(ds) == IF ds = <<>> THEN "" ELSE ToString(Head(ds)) \o DigitsText(Tail(ds))
RECURSIVE StripZeros(_)
StripZeros(ds) ==
  IF Len(ds) > 1 /\ ds[Len(ds)] = 0 THEN StripZeros(SubSeq(ds, 1, Len(ds) - 1)) ELSE ds

\* fmt.Sprintf("%v", v) of a float64 that holds the integer n: the verb is %g
\* with the shortest precision, which turns to the exponent form d.ddde+XX
\* once the decimal exponent reaches 6
SprintfFloat(n) ==
  LET ds == Digits(n)
      exp == Len(ds) - 1
      ms == StripZeros(ds)
  IN  IF exp < 6 THEN DigitsText(ds)
      ELSE ToString(ms[1])
             \o (IF Len(ms) > 1 THEN "." \o DigitsText(Tail(ms)) ELSE "")
             \o "e+" \o (IF exp < 10 THEN "0" ELSE "") \o ToString(exp)

\* fmt.Sprintf("%v", v) of a bool
SprintfBool(b) == IF b THEN "true" ELSE "false"

\* json.Marshal of a value held in an interface{}: no spaces, numbers in
\* plain decimals (up to 1e21), the keys of a map in their order
RECURSIVE JsonMarshal(_)
RECURSIVE JsonItems(_)
RECURSIVE JsonMembers(_)
JsonItems(items) ==
  IF items = <<>> THEN ""
  ELSE JsonMarshal(Head(items))
         \o (IF Len(items) > 1 THEN "," \o JsonItems(Tail(items)) ELSE "")
JsonMembers(members) ==
  IF members = <<>> THEN ""
  ELSE "\"" \o Head(members)[1] \o "\":" \o JsonMarshal(Head(members)[2])
         \o (IF Len(members) > 1 THEN "," \o JsonMembers(Tail(members)) ELSE "")
JsonMarshal(v) ==
  CASE v.t = "string" -> "\"" \o v.s \o "\""
    [] v.t = "number" -> DigitsText(Digits(v.n))
    [] v.t = "bool" -> SprintfBool(v.b)
    [] v.t = "null" -> "null"
    [] v.t = "array" -> "[" \o JsonItems(v.items) \o "]"
    [] OTHER -> "{" \o JsonMembers(v.members) \o "}"

\* the type switch of FetchSecret: one value of the object as a string
ConvertValue(v) ==
  CASE v.t = "string" -> v.s
    [] v.t = "number" -> SprintfFloat(v.n)
    [] v.t = "bool" -> SprintfBool(v.b)
    [] v.t = "null" -> ""
    [] OTHER -> JsonMarshal(v)

\* what GetSecretValue answers with: no SecretString (a binary secret), or a
\* SecretString that is a JSON object (its members), the JSON text null, a
\* JSON array, string or number, or no JSON at all
Document(kind, members) == [kind |-> kind, members |-> members]
\* json.Unmarshal into a map[string]interface{}: null leaves the map nil and
\* is no error; any other JSON that is not an object is a type error
JsonUnmarshal(doc) ==
  CASE doc.kind = "object" -> [err |-> "", rawData |-> doc.members]
    [] doc.kind = "null" -> [err |-> "", rawData |-> {}]
    [] doc.kind \in {"array", "string", "number"} ->
         [err |-> "json: cannot unmarshal into Go value of type map[string]interface {}",
          rawData |-> {}]
    [] OTHER -> [err |-> "invalid character", rawData |-> {}]

\* FetchSecret from the answer of GetSecretValue on: the data, or the error
FetchSecretString(doc) ==
  IF doc.kind = "nil"
    THEN [err |-> "secret does not contain a string value", data |-> {}]
    ELSE LET parsed == JsonUnmarshal(doc)
         IN  IF parsed.err # ""
               THEN [err |-> "failed to parse secret JSON", data |-> {}]
               ELSE [err |-> "",
                     data |-> { <<kv[1], ConvertValue(kv[2])>> : kv \in parsed.rawData }]

\* the values and documents explored
JsonArray1 == JArray(<<JString("host1"), JNumber(5432)>>)
JsonObject1 == JObject(<<<<"a", JNumber(1)>>, <<"b", JNull>>>>)
JsonValues ==
  {JString("localhost"), JString(""), JNumber(0), JNumber(5432), JNumber(100000),
   JNumber(1234567), JBool(TRUE), JBool(FALSE), JNull, JsonArray1, JsonObject1}
JsonKeys == {"host", "port"}
\* the objects with some of the keys, each with any of the values
JsonObjects ==
  { Document("object", { <<k, f[k]>> : k \in DOMAIN f }) :
      f \in UNION { [ks -> JsonValues] : ks \in SUBSET JsonKeys } }
SecretStrings ==
  JsonObjects \cup { Document(kind, {}) :
                       kind \in {"nil", "null", "array", "string", "number", "invalid"} }
NoFetched == [called |-> FALSE, err |-> "", data |-> {}]

\* ------------------------------------------------------- annotation parser
NoRequest == [Provider |-> "", SecretPath |-> "", SecretName |-> "", Namespace |-> "",
              PodName |-> "", PodUID |-> "", KeyMapping |-> {}]

\* variant: the path is not checked
ParseAnnotationNoPathCheck(annotationValue, namespace, podName, podUID) ==
  IF annotationValue.kind = "empty"
    THEN [err |-> "annotation value is empty", req |-> NoRequest]
  ELSE IF annotationValue.kind = "malformed"
    THEN [err |-> "failed to parse annotation YAML", req |-> NoRequest]
  ELSE IF annotationValue.provider = ""
    THEN [err |-> "provider field is required", req |-> NoRequest]
  ELSE IF annotationValue.secretName = ""
    THEN [err |-> "secretName field is required", req |-> NoRequest]
  ELSE [err |-> "",
        req |-> [Provider |-> annotationValue.provider,
                 SecretPath |-> annotationValue.path,
                 SecretName |-> annotationValue.secretName,
                 Namespace |-> namespace,
                 PodName |-> podName,
                 PodUID |-> podUID,
                 KeyMapping |-> annotationValue.keys]]

\* variant: the provider is not checked
ParseAnnotationNoProviderCheck(annotationValue, namespace, podName, podUID) ==
  IF annotationValue.kind = "empty"
    THEN [err |-> "annotation value is empty", req |-> NoRequest]
  ELSE IF annotationValue.kind = "malformed"
    THEN [err |-> "failed to parse annotation YAML", req |-> NoRequest]
  ELSE IF annotationValue.path = ""
    THEN [err |-> "path field is required", req |-> NoRequest]
  ELSE IF annotationValue.secretName = ""
    THEN [err |-> "secretName field is required", req |-> NoRequest]
  ELSE [err |-> "",
        req |-> [Provider |-> annotationValue.provider,
                 SecretPath |-> annotationValue.path,
                 SecretName |-> annotationValue.secretName,
                 Namespace |-> namespace,
                 PodName |-> podName,
                 PodUID |-> podUID,
                 KeyMapping |-> annotationValue.keys]]

\* ParseAnnotation: the request, or the error ("" when there is none).  The
\* YAML is decoded into PodAnnotation, which has the fields provider, path,
\* secretName and keys: any other key of the text is dropped by the decoder.
ParseAnnotation(annotationValue, namespace, podName, podUID) ==
  IF annotationValue.kind = "empty"
    THEN [err |-> "annotation value is empty", req |-> NoRequest]
  ELSE IF annotationValue.kind = "malformed"
    THEN [err |-> "failed to parse annotation YAML", req |-> NoRequest]
  ELSE IF annotationValue.provider = ""
    THEN [err |-> "provider field is required", req |-> NoRequest]
  ELSE IF annotationValue.path = ""
    THEN [err |-> "path field is required", req |-> NoRequest]
  ELSE IF annotationValue.secretName = ""
    THEN [err |-> "secretName field is required", req |-> NoRequest]
  ELSE [err |-> "",
        req |-> [Provider |-> annotationValue.provider,
                 SecretPath |-> annotationValue.path,
                 SecretName |-> annotationValue.secretName,
                 Namespace |-> namespace,
                 PodName |-> podName,
                 PodUID |-> podUID,
                 KeyMapping |-> annotationValue.keys]]

\* ------------------------------------------- annotation texts as written
\* A node of a YAML text: not there, a scalar with its tag and its text as
\* written (the null scalar is written as nothing), a sequence, or a mapping
\* with its entries in the order written.
YNode(tag, text, entries) == [tag |-> tag, text |-> text, entries |-> entries]
YAbsent == YNode("absent", "", <<>>)
YNull == YNode("null", "", <<>>)
YStr(s) == YNode("str", s, <<>>)
YInt(s) == YNode("int", s, <<>>)
YSeq == YNode("seq", "", <<>>)
YMap(entries) == YNode("map", "", entries)

\* a text: empty, not YAML, blank (white space or a comment), a single scalar,
\* or a mapping given by the node under each key
YamlText(form, provider, path, secretName, keys, namespace) ==
  [form |-> form, provider |-> provider, path |-> path, secretName |-> secretName,
   keys |-> keys, namespace |-> namespace]
TextEmpty == YamlText("empty", YAbsent, YAbsent, YAbsent, YAbsent, YAbsent)
TextInvalid == [TextEmpty EXCEPT !.form = "invalid"]
TextBlank == [TextEmpty EXCEPT !.form = "blank"]
TextScalar == [TextEmpty EXCEPT !.form = "scalar"]

\* variant: a node of the wrong kind is read as the empty string
DecodeStringLenient(n) ==
  [err |-> FALSE, value |-> IF n.tag \in {"str", "int"} THEN n.text ELSE ""]

\* a node decoded into a Go string: a node that is not there or is null leaves
\* the zero value, any other scalar gives its text, a sequence or a mapping
\* is a type error
DecodeString(n) ==
  [err |-> n.tag \in {"seq", "map"},
   value |-> IF n.tag \in {"str", "int"} THEN n.text ELSE ""]

\* variant: an entry whose value is null is left out of the map
DecodeKeysSkipNull(n) ==
  IF n.tag \in {"absent", "null"} THEN [err |-> FALSE, value |-> {}]
  ELSE IF n.tag # "map" THEN [err |-> TRUE, value |-> {}]
  ELSE [err |-> \/ \E i \in DOMAIN n.entries : DecodeString(n.entries[i][2]).err
                \/ \E i, j \in DOMAIN n.entries : i # j /\ n.entries[i][1] = n.entries[j][1],
        value |-> { <<n.entries[i][1], DecodeString(n.entries[i][2]).value>> :
                      i \in { j \in DOMAIN n.entries : n.entries[j][2].tag # "null" } }]

\* a node decoded into map[string]string: a node that is not there or is null
\* leaves the nil map, a mapping gives one entry per key (a null value gives
\* the empty string), a key written twice or a value that is no scalar is an
\* error, and so is a node that is no mapping
DecodeKeys(n) ==
  IF n.tag \in {"absent", "null"} THEN [err |-> FALSE, value |-> {}]
  ELSE IF n.tag # "map" THEN [err |-> TRUE, value |-> {}]
  ELSE [err |-> \/ \E i \in DOMAIN n.entries : DecodeString(n.entries[i][2]).err
                \/ \E i, j \in DOMAIN n.entries : i # j /\ n.entries[i][1] = n.entries[j][1],
        value |-> { <<n.entries[i][1], DecodeString(n.entries[i][2]).value>> :
                      i \in DOMAIN n.entries }]

\* yaml.Unmarshal into PodAnnotation: the fields provider, path, secretName
\* and keys are decoded, any other key of the text is dropped; a blank text
\* leaves the zero PodAnnotation
YamlUnmarshal(text) ==
  LET provider == DecodeString(text.provider)
      path == DecodeString(text.path)
      secretName == DecodeString(text.secretName)
      keys == DecodeKeys(text.keys)
  IN  IF text.form \in {"invalid", "scalar"}
        THEN [err |-> TRUE, Provider |-> "", Path |-> "", SecretName |-> "", Keys |-> {}]
      ELSE [err |-> provider.err \/ path.err \/ secretName.err \/ keys.err,
            Provider |-> provider.value, Path |-> path.value,
            SecretName |-> secretName.value, Keys |-> keys.value]

\* the annotation value as ParseAnnotation sees it: the empty text, a text
\* that yaml.Unmarshal refuses, or the PodAnnotation decoded from it
AnnotationValue(text) ==
  LET podAnnotation == YamlUnmarshal(text)
  IN  IF text.form = "empty" THEN AnnEmpty
      ELSE IF podAnnotation.err THEN AnnMalformed
      ELSE YamlDoc(podAnnotation.Provider, podAnnotation.Path, podAnnotation.SecretName,
                   podAnnotation.Keys,
                   IF text.namespace.tag = "str" THEN text.namespace.text ELSE "")

\* the texts handed to ParseAnnotation
RECURSIVE SeqsUpTo(_, _)
SeqsUpTo(S, n) ==
  IF n = 0 THEN {<<>>}
  ELSE LET shorter == SeqsUpTo(S, n - 1)
       IN  shorter \cup { Append(q, e) : q \in shorter, e \in S }
KeyEntries == {"x", "y"} \X {YStr("a"), YNull, YSeq}
KeysNodes == {YAbsent, YNull, YStr("a")} \cup { YMap(es) : es \in SeqsUpTo(KeyEntries, MaxKeys) }
ProviderNodes == {YAbsent, YNull, YStr(""), YStr("aws-secretsmanager"), YInt("7"), YSeq}
PathNodes == {YAbsent, YStr(""), YStr("/a")}
SecretNameNodes == {YAbsent, YStr(""), YStr("s")}
NamespaceNodes == {YAbsent, YStr("ns2")}
YamlTexts ==
  {TextEmpty, TextInvalid, TextBlank, TextScalar}
  \cup { YamlText("mapping", provider, path, secretName, keys, namespace) :
           provider \in ProviderNodes, path \in PathNodes,
           secretName \in SecretNameNodes, keys \in KeysNodes,
           namespace \in NamespaceNodes }
PodUIDs == {"uid-1", "uid-2"}
NoParsed == [called |-> FALSE, text |-> TextEmpty, namespace |-> "", podName |-> "",
             podUID |-> "", err |-> "", req |-> NoRequest]

\* -------------------------------------------------------- provider registry
\* a provider object: its implementation, which instance of it, and the
\* name its Name() returns
Provider(impl, id, name) == [impl |-> impl, id |-> id, name |-> name]
\* the nil SecretProvider
NilProvider == Provider("nil", 0, "")
AWSProvider == Provider("AWSSecretsManagerProvider", 1, "aws-secretsmanager")
\* the providers handed to Register: two instances under each of two names
Providers ==
  {AWSProvider, Provider("AWSSecretsManagerProvider", 2, "aws-secretsmanager"),
   Provider("other", 1, "vault"), Provider("other", 2, "vault")}
\* the names asked for: the two above and one that nobody registers
ProviderNames == {"aws-secretsmanager", "vault", "azure-keyvault"}

\* NewProviderRegistry: the empty map name -> provider
NewProviderRegistry == {}

\* variant: a name once registered keeps its provider
RegisterFirstWins(providers, provider) ==
  IF Has(providers, provider.name) THEN providers
  ELSE Put(providers, provider.name, provider)

\* ProviderRegistry.Register: r.providers[provider.Name()] = provider
Register(providers, provider) == Put(providers, provider.name, provider)

\* the registry DefaultProviderRegistry returns: the AWS provider registered
DefaultProviderRegistry == Register(NewProviderRegistry, AWSProvider)

\* variant: a name that is not registered yields the first provider
RegistryGetFallback(providers, name) ==
  IF Has(providers, name) THEN Lookup(providers, name)
  ELSE (CHOOSE kv \in providers : TRUE)[2]

\* ProviderRegistry.Get: the provider, or nil (the zero value of the map read)
RegistryGet(providers, name) ==
  IF Has(providers, name) THEN Lookup(providers, name) ELSE NilProvider

\* variant: a Get of a name that is not registered registers the AWS provider
\* under it
ProvidersAfterGetRegistering(providers, name) ==
  IF Has(providers, name) THEN providers ELSE Put(providers, name, AWSProvider)

\* the map of the registry after a Get: the read of a Go map leaves the map as
\* it is, also for a key that is not in it
ProvidersAfterGet(providers, name) == providers

\* ------------------------------------------------------ Reconcile's helpers
\* variant: a target key whose source key is absent is written empty
MergePayloadDefaulting(keyMapping, secretData) ==
  IF Cardinality(keyMapping) > 0
    THEN { <<m[1], IF Has(secretData, m[2]) THEN Lookup(secretData, m[2]) ELSE "">> :
             m \in keyMapping }
    ELSE secretData

\* variant: the mapping loop runs also when there is no mapping
MergePayloadAlwaysMapped(keyMapping, secretData) ==
  { <<m[1], Lookup(secretData, m[2])>> : m \in { n \in keyMapping : Has(secretData, n[2]) } }

\* variant: nothing is mapped when a source key is absent
MergePayloadAllOrNothing(keyMapping, secretData) ==
  IF Cardinality(keyMapping) > 0
    THEN IF \A n \in keyMapping : Has(secretData, n[2])
           THEN { <<m[1], Lookup(secretData, m[2])>> : m \in keyMapping }
           ELSE {}
    ELSE secretData

\* the key mapping applied to the fetched data (StringData of the secret)
MergePayload(keyMapping, secretData) ==
  IF Cardinality(keyMapping) > 0
    THEN { <<m[1], Lookup(secretData, m[2])>> :
              m \in { n \in keyMapping : Has(secretData, n[2]) } }
    ELSE secretData

\* variant: the secret is looked up in a fixed namespace
SecretObjectKeyFixedNamespace(syncRequest) == <<"ns1", syncRequest.SecretName>>

\* the key of the secret Reconcile reads and writes
SecretObjectKey(syncRequest) == <<syncRequest.Namespace, syncRequest.SecretName>>

\* time.Now().UTC().Format(time.RFC3339), to the second
FormatSyncedAt(t) == t

\* variant: a failed fetch is notified and the run goes on
FetchFailureIgnored(fetchErr) == ""

\* variant: the error of the fetch is not returned
FetchFailureSwallowed(fetchErr) == "done"

\* what Reconcile returns after a failed fetch: ctrl.Result{Requeue: true}, err
FetchFailureResult(fetchErr) == "requeue_error"

\* variant: the object sent carries no resource version (unconditional write)
UpdateResourceVersionNone(cur) == 0

\* the resourceVersion of the object handed to Update: that of the object read
UpdateResourceVersion(cur) == cur.rv

\* variant: an existing secret is deleted, to be created anew by the next run
WriteVerbRecreate(secretExists) == IF secretExists THEN "Delete" ELSE "Create"

\* the call Reconcile writes the secret with
WriteVerb(secretExists) == IF secretExists THEN "Update" ELSE "Create"

\* variant: the annotations are set on a new object only
DesiredSecretAnnotateOnCreate(cur, syncRequest, secretStringData, now) ==
  [data |-> cur.data, stringData |-> secretStringData,
   labels |-> Put(cur.labels, ManagedByLabel, ManagedByValue),
   sourcePath |-> IF cur.exists THEN cur.sourcePath ELSE syncRequest.SecretPath,
   syncedAt |-> IF cur.exists THEN cur.syncedAt ELSE FormatSyncedAt(now),
   annotations |-> cur.annotations, type |-> SecretTypeOpaque,
   rv |-> UpdateResourceVersion(cur)]

\* variant: the labels are reset, and the managed-by label set on create only
DesiredSecretLabelOnCreate(cur, syncRequest, secretStringData, now) ==
  [data |-> cur.data, stringData |-> secretStringData,
   labels |-> IF cur.exists THEN {} ELSE Put({}, ManagedByLabel, ManagedByValue),
   sourcePath |-> syncRequest.SecretPath, syncedAt |-> FormatSyncedAt(now),
   annotations |-> cur.annotations, type |-> SecretTypeOpaque,
   rv |-> UpdateResourceVersion(cur)]

\* variant: the managed-by label is set on a new secret only
DesiredSecretLabelNewOnly(cur, syncRequest, secretStringData, now) ==
  [data |-> cur.data, stringData |-> secretStringData,
   labels |-> IF cur.exists THEN cur.labels ELSE Put(cur.labels, ManagedByLabel, ManagedByValue),
   sourcePath |-> syncRequest.SecretPath, syncedAt |-> FormatSyncedAt(now),
   annotations |-> cur.annotations, type |-> SecretTypeOpaque,
   rv |-> UpdateResourceVersion(cur)]

\* variant: a new object is filled in, whatever was read
DesiredSecretNewObject(cur, syncRequest, secretStringData, now) ==
  [data |-> cur.data, stringData |-> secretStringData,
   labels |-> {<<ManagedByLabel, ManagedByValue>>},
   sourcePath |-> syncRequest.SecretPath, syncedAt |-> FormatSyncedAt(now),
   annotations |-> {}, type |-> SecretTypeOpaque,
   rv |-> UpdateResourceVersion(cur)]

\* the object Reconcile hands to Create or Update: the object it read (empty
\* but for name and namespace when there was none) with the managed-by label,
\* the two annotations, StringData and the type set; annotations are the
\* annotations other than these two
DesiredSecret(cur, syncRequest, secretStringData, now) ==
  [data |-> cur.data,
   stringData |-> secretStringData,
   labels |-> Put(cur.labels, ManagedByLabel, ManagedByValue),
   sourcePath |-> syncRequest.SecretPath,
   syncedAt |-> FormatSyncedAt(now),
   annotations |-> cur.annotations,
   type |-> SecretTypeOpaque,
   rv |-> UpdateResourceVersion(cur)]

\* ------------------------------------------------- the secret store (API)
NoSecret == [exists |-> FALSE, data |-> {}, labels |-> {}, sourcePath |-> "",
             syncedAt |-> -1, annotations |-> {}, type |-> "", rv |-> 0]

\* StringData is write-only: the server merges it into Data on every write,
\* overwriting the keys it names and keeping the others
Overlay(data, stringData) ==
  { kv \in data : ~Has(stringData, kv[1]) } \cup stringData

Stored(obj, rv) ==
  [exists |-> TRUE, data |-> Overlay(obj.data, obj.stringData), labels |-> obj.labels,
   sourcePath |-> obj.sourcePath, syncedAt |-> obj.syncedAt,
   annotations |-> obj.annotations, type |-> obj.type, rv |-> rv]

\* Create: refused when the name is taken
StoreCreate(stored, obj) ==
  IF stored.exists
    THEN [err |-> "AlreadyExists", secret |-> stored]
    ELSE [err |-> "", secret |-> Stored(obj, stored.rv + 1)]

\* Update: refused when the object is gone, when the version handed in is
\* not the stored one (a version of 0 is no precondition) or when the type
\* is not the stored one (the type of a secret is immutable); an update that
\* changes nothing is no write: the version stays and no event is sent
StoreUpdate(stored, obj) ==
  IF ~stored.exists
    THEN [err |-> "NotFound", secret |-> stored]
  ELSE IF obj.rv # 0 /\ obj.rv # stored.rv
    THEN [err |-> "Conflict", secret |-> stored]
  ELSE IF obj.type # stored.type
    THEN [err |-> "Invalid", secret |-> stored]
  ELSE IF Stored(obj, stored.rv) = stored
    THEN [err |-> "", secret |-> stored]
    ELSE [err |-> "", secret |-> Stored(obj, stored.rv + 1)]

\* Delete: the object is removed; its name keeps no version
StoreDelete(stored) ==
  IF ~stored.exists
    THEN [err |-> "NotFound", secret |-> stored]
    ELSE [err |-> "", secret |-> [NoSecret EXCEPT !.rv = stored.rv]]

IsManaged(secret) ==
  Has(secret.labels, ManagedByLabel) /\ Lookup(secret.labels, ManagedByLabel) = ManagedByValue

\* what an actor outside the engine may put into a secret, and its labels
ExternalDatas == { {<<"a", "v0">>, <<"old", "v0">>} }
Unlabelled == {}
ManagedLabels == {<<ManagedByLabel, ManagedByValue>>}
OtherLabels == {<<"team", "core">>}
ExternalLabelSets == {Unlabelled, ManagedLabels, OtherLabels}
\* the annotations and the type an outside actor gives its secret
ExternalAnnotations == {<<"note", "n1">>}
SecretTypes == {SecretTypeOpaque, SecretTypeTLS}

\* ------------------------------------------- the changes made from outside
\* one change: a pod created, updated or deleted, the source data changed, a
\* secret written or deleted by somebody else
Change(op, pod, annotations, key, labels) ==
  [op |-> op, pod |-> pod, annotations |-> annotations, key |-> key, labels |-> labels,
   fault |-> "", data |-> {}, type |-> ""]
OpPodCreate(p, t) == Change("PodCreate", p, {<<AnnotationKey, t>>}, <<"", "">>, {})
OpPodCreateBare(p) == Change("PodCreate", p, NoAnnotations, <<"", "">>, {})
OpPodUpdate(p, t) == Change("PodUpdate", p, {<<AnnotationKey, t>>}, <<"", "">>, {})
OpPodDelete(p) == Change("PodDelete", p, NoAnnotations, <<"", "">>, {})
OpSourceChange(err, data) ==
  [Change("SourceChange", "", NoAnnotations, <<"", "">>, {}) EXCEPT !.fault = err, !.data = data]
OpApiFault(fault) ==
  [Change("ApiFault", "", NoAnnotations, <<"", "">>, {}) EXCEPT !.fault = fault]
ApiFaults == {"GetError", "Forbidden"}
OpExternalWriteTyped(k, l, t) ==
  [Change("ExternalWrite", "", NoAnnotations, k, l) EXCEPT !.type = t]
OpExternalWrite(k, l) == OpExternalWriteTyped(k, l, SecretTypeOpaque)
OpExternalDelete(k) == Change("ExternalDelete", "", NoAnnotations, k, {})

K1 == <<"ns1", "s">>
K2 == <<"ns2", "s">>
SameNamespace == [p \in Pods |-> "ns1"]
OtherNamespace == [p \in Pods |-> IF p = "p1" THEN "ns1" ELSE "ns2"]

\* the runs of the environment that are explored: the changes, in their order,
\* and the namespaces of the pods
Scenario(layout, script) == [layout |-> layout, script |-> script]
OnePodScripts ==
  { <<OpPodCreate("p1", t), OpExternalWrite(K1, ManagedLabels), OpPodDelete("p1")>> :
      t \in AnnTexts }
  \cup
  { <<OpPodCreateBare("p1"), OpExternalWrite(K1, ManagedLabels), OpPodDelete("p1"),
      OpPodCreate("p1", AnnPlain)>> }
  \cup
  { <<OpExternalWrite(K1, Unlabelled), OpPodCreate("p1", AnnPlain), OpExternalDelete(K1),
      OpPodDelete("p1")>>,
    <<OpPodCreate("p1", AnnPlain), OpPodUpdate("p1", AnnMapped), OpExternalDelete(K1),
      OpSourceChange("", SourceData2)>>,
    <<OpPodCreate("p1", AnnPlain), OpSourceChange("", SourceData2), OpExternalDelete(K1),
      OpPodUpdate("p1", AnnPlain)>>,
    <<OpPodCreate("p1", AnnMapped), OpSourceChange("", SourceData2),
      OpPodUpdate("p1", AnnMapped), OpExternalDelete(K1)>>,
    <<OpSourceChange("", SourceData3), OpPodCreate("p1", AnnMapped)>>,
    <<OpExternalWrite(K1, OtherLabels), OpPodCreate("p1", AnnPlain)>>,
    <<OpExternalWriteTyped(K1, OtherLabels, SecretTypeTLS), OpPodCreate("p1", AnnPlain)>> }
  \cup
  { <<OpPodCreate("p1", AnnPlain), OpSourceChange(e, SourceData2),
      OpSourceChange("", SourceData2), OpExternalDelete(K1)>> : e \in FetchErrors }
  \cup
  { <<OpPodCreate("p1", AnnPlain), OpApiFault(f), OpApiFault(""), OpExternalDelete(K1)>> :
      f \in ApiFaults }
  \cup
  { <<OpApiFault(f), OpPodCreate("p1", AnnPlain), OpApiFault(""), OpPodDelete("p1")>> :
      f \in ApiFaults }
TwoPodScripts ==
  { <<OpPodCreate("p1", AnnPlain), OpPodCreate("p2", AnnPlain), OpExternalDelete(K1)>>,
    <<OpPodCreate("p1", AnnPlain), OpPodCreate("p2", AnnMapped), OpSourceChange("", SourceData2)>>,
    <<OpPodCreate("p1", AnnPlain), OpPodCreate("p2", AnnPlain), OpExternalDelete(K2),
      OpPodDelete("p2")>> }
Scenarios ==
  { Scenario(SameNamespace, sc) : sc \in OnePodScripts \cup TwoPodScripts }
  \cup { Scenario(OtherNamespace, sc) : sc \in TwoPodScripts }

\* ------------------------------------------------------------------- state
VARIABLES
  script,        \* the changes the outside makes, in their order
  podNamespace,  \* pod -> its namespace
  pods,          \* pod -> [exists, annotations]
  source,        \* the external secret at path "/a": its data, or the error it answers with
  apiFault,      \* the fault of the Kubernetes API for secrets, "" when it works
  secrets,       \* <<namespace, name>> -> the stored secret
  secretEvents,  \* watch events on secrets not yet mapped to pods
  queue,         \* the work queue: pods to reconcile
  run,           \* pod -> the locals of its Reconcile call in flight
  ret,           \* the Reconcile call that returned in the last step, if any
  now,           \* the wall clock
  ext,           \* number of changes made from outside so far
  legit,         \* history: queued pods with a cause other than the engine's own write
  last,          \* history: pod -> the secret as its last successful run left it
  deleted,       \* history: secret key -> the payload an outside delete removed
  producedBy,    \* history: secret key -> who has written the present secret
  listed,        \* history: the reverse lookup of the last step, if any
  registry,      \* the provider registry of the reconciler: name -> provider
  registered,    \* history: the providers handed to Register, in their order
  asked,         \* the last ProviderRegistry.Get made on its own, if any
  secretString,  \* the answer of GetSecretValue to a FetchSecret made on its own
  fetchResult,   \* what that FetchSecret returned, once it has
  parseResult    \* the last ParseAnnotation made on its own text, if any

\* the cluster and the engine
engine == <<script, podNamespace, pods, source, apiFault, secrets, secretEvents, queue, run, ret, now,
            ext, legit, last, deleted, producedBy, listed>>
\* the registry and what is called on it directly
parts == <<registry, registered, asked, secretString, fetchResult, parseResult>>
vars == <<engine, parts>>

NoAsked == [called |-> FALSE, name |-> "", provider |-> NilProvider]

NoLast == [valid |-> FALSE, key |-> <<"", "">>, data |-> {}, labels |-> {}, syncedAt |-> -1]
NoDeleted == [valid |-> FALSE, data |-> {}, pod |-> ""]
NoListed == [secretNamespace |-> "", name |-> "", labels |-> {}, listNamespace |-> "", found |-> {},
             self |-> FALSE]

IdleRun ==
  [pc |-> "idle", annotationValue |-> AnnEmpty, found |-> FALSE, parseErr |-> "",
   req |-> NoRequest, secretData |-> {}, cur |-> NoSecret,
   secretExists |-> FALSE, events |-> <<>>, said |-> {}, ops |-> <<>>, self |-> FALSE,
   dirty |-> FALSE, steps |-> <<>>, fetchedAt |-> 0]

NoReturn ==
  [pod |-> "", result |-> "none", run |-> IdleRun, fetchErr |-> "", writeErr |-> "",
   merged |-> {}, wrote |-> "", before |-> NoSecret, written |-> NoSecret,
   prev |-> NoLast, recreated |-> NoDeleted]

PodNamespace(p) == podNamespace[p]

\* the engine at its start, in one of the scenarios
EngineInit(scenarios) ==
  /\ \E sc \in scenarios : script = sc.script /\ podNamespace = sc.layout
  /\ pods = [p \in Pods |-> [exists |-> FALSE, annotations |-> NoAnnotations]]
  /\ source = SourceState("", SourceData1)
  /\ apiFault = ""
  /\ secrets = [k \in SecretKeys |-> NoSecret]
  /\ secretEvents = {}
  /\ queue = {}
  /\ run = [p \in Pods |-> IdleRun]
  /\ ret = NoReturn
  /\ now = 0
  /\ ext = 0
  /\ legit = {}
  /\ last = [p \in Pods |-> NoLast]
  /\ deleted = [k \in SecretKeys |-> NoDeleted]
  /\ producedBy = [k \in SecretKeys |-> {}]
  /\ listed = NoListed

\* main: the reconciler is given the registry DefaultProviderRegistry returns
Init ==
  /\ EngineInit(Scenarios)
  /\ registry = DefaultProviderRegistry
  /\ registered = <<AWSProvider>>
  /\ asked = NoAsked
  /\ secretString = Document("nil", {})
  /\ fetchResult = NoFetched
  /\ parseResult = NoParsed

\* -------------------------------------------------- history bookkeeping
Running(p) == run[p].pc # "idle"

\* the secret key pod p asks for, <<"", "">> when its annotation is not valid
RequestedKey(p) ==
  IF pods[p].exists /\ Has(pods[p].annotations, AnnotationKey)
    THEN LET parsed == ParseAnnotation(Lookup(pods[p].annotations, AnnotationKey),
                                       PodNamespace(p), p, p)
         IN  IF parsed.err = "" THEN SecretObjectKey(parsed.req) ELSE <<"", "">>
    ELSE <<"", "">>

\* a run in flight no longer works on the present inputs
Taint(ps) == [p \in Pods |-> IF p \in ps /\ Running(p)
                               THEN [run[p] EXCEPT !.dirty = TRUE] ELSE run[p]]
Forget(ps) == [p \in Pods |-> IF p \in ps THEN NoLast ELSE last[p]]
ForgetDeleted(ks) ==
  [k \in SecretKeys |-> IF k \in ks THEN NoDeleted ELSE deleted[k]]
PodsOfKey(k) == { p \in Pods : last[p].key = k }

\* ------------------------------------------- changes made from the outside
\* the next change of the script is c
Due(c) == ext < MaxExt /\ ext < Len(script) /\ script[ext + 1] = c

PodEvent(p, annotations, exists) ==
  LET same == pods[p].exists /\ exists /\ pods[p].annotations = annotations
  IN
  /\ pods' = [pods EXCEPT ![p] = [exists |-> exists, annotations |-> annotations]]
  /\ queue' = queue \cup {p}
  /\ legit' = legit \cup {p}
  /\ run' = IF same THEN run ELSE Taint({p})
  /\ last' = IF same THEN last ELSE Forget({p})
  /\ deleted' = IF same THEN deleted
                ELSE ForgetDeleted({ k \in SecretKeys : k[1] = PodNamespace(p) })
  /\ ext' = ext + 1
  /\ ret' = NoReturn
  /\ listed' = NoListed
  /\ UNCHANGED <<parts, script, podNamespace, source, apiFault, secrets, secretEvents, now, producedBy>>

PodCreate(p, annotations) ==
  /\ Due(Change("PodCreate", p, annotations, <<"", "">>, {}))
  /\ ~pods[p].exists
  /\ PodEvent(p, annotations, TRUE)

PodUpdate(p, annotations) ==
  /\ Due(Change("PodUpdate", p, annotations, <<"", "">>, {}))
  /\ pods[p].exists
  /\ PodEvent(p, annotations, TRUE)

PodDelete(p) ==
  /\ Due(OpPodDelete(p))
  /\ pods[p].exists
  /\ PodEvent(p, NoAnnotations, FALSE)

SourceChange(err, d) ==
  /\ Due(OpSourceChange(err, d))
  /\ source' = SourceState(err, d)
  /\ run' = Taint({ p \in Pods : run[p].pc = "write" })
  /\ last' = Forget(Pods)
  /\ deleted' = ForgetDeleted(SecretKeys)
  /\ ext' = ext + 1
  /\ ret' = NoReturn
  /\ listed' = NoListed
  /\ UNCHANGED <<parts, script, podNamespace, pods, apiFault, secrets, secretEvents, queue, now, legit, producedBy>>

ApiFaultChange(fault) ==
  /\ Due(OpApiFault(fault))
  /\ apiFault' = fault
  /\ ext' = ext + 1
  /\ ret' = NoReturn
  /\ listed' = NoListed
  /\ UNCHANGED <<parts, script, podNamespace, pods, source, secrets, secretEvents, queue, run, now,
                 legit, last, deleted, producedBy>>

SecretEvent(k, secret, self) ==
  [namespace |-> k[1], name |-> k[2], labels |-> secret.labels, self |-> self]

ExternalWrite(k, data, labels) ==
  /\ \E t \in SecretTypes :
       /\ Due(OpExternalWriteTyped(k, labels, t))
       /\ secrets' = [secrets EXCEPT ![k] =
                        [@ EXCEPT !.exists = TRUE, !.data = data, !.labels = labels,
                                  !.annotations = ExternalAnnotations, !.type = t,
                                  !.rv = @ + 1]]
  /\ secrets[k].rv < MaxRV
  /\ secretEvents' = secretEvents \cup {SecretEvent(k, secrets'[k], FALSE)}
  /\ producedBy' = [producedBy EXCEPT ![k] = @ \cup {"external"}]
  /\ last' = Forget(PodsOfKey(k))
  /\ deleted' = ForgetDeleted({k})
  /\ ext' = ext + 1
  /\ ret' = NoReturn
  /\ listed' = NoListed
  /\ UNCHANGED <<parts, script, podNamespace, pods, source, apiFault, queue, run, now, legit>>

ExternalDelete(k) ==
  /\ Due(OpExternalDelete(k))
  /\ secrets[k].exists
  /\ secrets' = [secrets EXCEPT ![k] = [NoSecret EXCEPT !.rv = secrets[k].rv]]
  /\ secretEvents' = secretEvents \cup {SecretEvent(k, secrets[k], FALSE)}
  /\ deleted' = [deleted EXCEPT ![k] =
       IF /\ IsManaged(secrets[k])
          /\ \E p \in Pods :
               /\ producedBy[k] = {p}
               /\ last[p].valid /\ last[p].key = k
               /\ { q \in Pods : RequestedKey(q) = k } = {p}
         THEN [valid |-> TRUE, data |-> secrets[k].data,
               pod |-> CHOOSE p \in Pods : producedBy[k] = {p}]
         ELSE NoDeleted]
  /\ producedBy' = [producedBy EXCEPT ![k] = {}]
  /\ last' = Forget(PodsOfKey(k))
  /\ ext' = ext + 1
  /\ ret' = NoReturn
  /\ listed' = NoListed
  /\ UNCHANGED <<parts, script, podNamespace, pods, source, apiFault, queue, run, now, legit>>

\* the clock is read by the write step alone
Tick ==
  /\ now < MaxTime
  /\ \E p \in Pods : run[p].pc = "write"
  /\ now' = now + 1
  /\ ret' = NoReturn
  /\ listed' = NoListed
  /\ UNCHANGED <<parts, script, podNamespace, pods, source, apiFault, secrets, secretEvents, queue, run, ext,
                 legit, last, deleted, producedBy>>

\* ------------------------------------------------------ the reverse lookup
\* the namespace findPodsForSecret lists pods in
ListNamespace(secretEvent) == secretEvent.namespace

\* findPodsForSecret: the pods to enqueue for an event on a secret
findPodsForSecret(secretEvent) ==
  IF ~IsManaged(secretEvent)
    THEN {}
    ELSE { p \in Pods :
             /\ pods[p].exists
             /\ PodNamespace(p) = ListNamespace(secretEvent)
             /\ Has(pods[p].annotations, AnnotationKey)
             /\ LET parsed == ParseAnnotation(Lookup(pods[p].annotations, AnnotationKey),
                                              PodNamespace(p), p, p)
                IN  parsed.err = "" /\ parsed.req.SecretName = secretEvent.name }

\* the watch on secrets (SetupWithManager): every event is mapped to pods
HandleSecretEvent(e) ==
  /\ e \in secretEvents
  /\ secretEvents' = secretEvents \ {e}
  /\ queue' = queue \cup findPodsForSecret(e)
  /\ legit' = legit \cup (IF e.self THEN {} ELSE findPodsForSecret(e))
  /\ listed' = [secretNamespace |-> e.namespace, name |-> e.name, labels |-> e.labels,
                listNamespace |-> IF IsManaged(e) THEN ListNamespace(e) ELSE "",
                found |-> findPodsForSecret(e), self |-> e.self]
  /\ ret' = NoReturn
  /\ UNCHANGED <<parts, script, podNamespace, pods, source, apiFault, secrets, run, now, ext, last, deleted, producedBy>>

\* ---------------------------------------------------------------- Reconcile
\* the scheduler re-queues (rate limited) a key whose Reconcile returned an error
Requeued(result) == result \in {"requeue_error", "error"}
QueueAfter(q, p, result) == IF Requeued(result) THEN q \cup {p} ELSE q
LegitAfter(l, p, self, result) == IF Requeued(result) /\ ~self THEN l \cup {p} ELSE l

\* the steps of Reconcile in the order of its statements, up to the write;
\* a notification ends the run wherever it is made
StepOrder ==
  <<"Load", "Extract", "Validate", "NamespaceCheck", "ProviderResolve", "Fetch",
    "ReadSecret", "Merge", "Write">>
\* the steps of Reconcile a run has gone through, in their order
Step(r, s) == [r EXCEPT !.steps = Append(@, s)]
\* r.Recorder.Event
Emit(r, reason) == Step([r EXCEPT !.events = Append(@, reason)], "Notify")
\* the strings a notification or log record of the run is made of
Say(r, strings) == [r EXCEPT !.said = @ \cup strings]
Did(r, op, namespace) == [r EXCEPT !.ops = Append(@, <<op, namespace>>)]
Return(p, r, result) == [NoReturn EXCEPT !.pod = p, !.result = result, !.run = r]

\* variant: a pod that is gone is an error of the run
IgnoreNotFoundNever(err) == err

\* client.IgnoreNotFound: the error, "" when it is NotFound
IgnoreNotFound(err) == IF err = "NotFound" THEN "" ELSE err

\* variant: the value is taken without the presence flag of the map read
ExtractAnnotationNoFlag(annotations) ==
  [found |-> TRUE,
   annotationValue |-> IF Has(annotations, AnnotationKey)
                         THEN Lookup(annotations, AnnotationKey) ELSE AnnEmpty]

\* annotationValue, found := pod.Annotations[AnnotationKey]: the zero value
\* (the empty string) when the key is not there
ExtractAnnotation(annotations) ==
  [found |-> Has(annotations, AnnotationKey),
   annotationValue |-> IF Has(annotations, AnnotationKey)
                         THEN Lookup(annotations, AnnotationKey) ELSE AnnEmpty]

\* Reconcile up to the provider lookup: load the pod, extract and parse the
\* annotation, check the namespace, resolve the provider.  "" is no return.
Preflight(p, r0) ==
  LET pod == pods[p]
      extracted == ExtractAnnotation(pod.annotations)
      annotationValue == extracted.annotationValue
      parsed == ParseAnnotation(annotationValue, PodNamespace(p), p, p)
      rx == Step(r0, "Extract")
      r1 == Step([rx EXCEPT !.found = TRUE, !.annotationValue = annotationValue,
                            !.parseErr = parsed.err, !.req = parsed.req], "Validate")
      rn == Step(r1, "NamespaceCheck")
      r2 == Step(Did(rn, "ProviderGet", ""), "ProviderResolve")
  IN  IF ~pod.exists
        THEN [result |-> IF IgnoreNotFound("NotFound") = "" THEN "done" ELSE "error",
              r |-> Say(r0, {"unable to fetch Pod"})]
      ELSE IF ~extracted.found
        THEN [result |-> "done", r |-> Say(rx, {"Pod has no secret sync annotation, skipping"})]
      ELSE IF parsed.err # ""
        THEN [result |-> "done",
              r |-> Say(Emit(r1, EventReasonAnnotationInvalid), {parsed.err})]
      ELSE IF parsed.req.Namespace # PodNamespace(p)
        THEN [result |-> "done", r |-> Emit(rn, EventReasonAnnotationInvalid)]
      ELSE IF RegistryGet(registry, parsed.req.Provider) = NilProvider
        THEN [result |-> "done",
              r |-> Say(Emit(r2, EventReasonProviderUnsupported), {parsed.req.Provider})]
      ELSE [result |-> "", r |-> [r2 EXCEPT !.pc = "fetch"]]

\* variant: the provider answers from what it read when it was created
FetchedDataAtStartup(src) == SourceData1

\* the data FetchSecret returns: what GetSecretValue reads now (no cache)
FetchedData(src) == src.data

\* secretProvider.FetchSecret: the data of the source, or its error
Fetch(r0) ==
  LET r1 == Step([Did(r0, "Fetch", "") EXCEPT !.fetchedAt = ext], "Fetch")
  IN  IF source.err # ""
        THEN [result |-> FetchFailureResult(source.err), fetchErr |-> source.err,
              r |-> Say(Emit(r1, EventReasonSecretFetchFailed),
                        {r0.req.Provider, r0.req.SecretPath} \cup FetchSecretError(source))]
        ELSE [result |-> "", fetchErr |-> "", r |-> [r1 EXCEPT !.secretData = FetchedData(source)]]

\* r.Get of the secret named by the request
GetSecret(r0) ==
  LET k == SecretObjectKey(r0.req)
      r1 == Step(Did(r0, "GetSecret", k[1]), "ReadSecret")
  IN  IF apiFault = "GetError"
        THEN [result |-> "error", r |-> r1]
        ELSE [result |-> "",
              r |-> [r1 EXCEPT !.pc = "write",
                               !.secretExists = secrets[k].exists,
                               !.cur = IF secrets[k].exists THEN secrets[k] ELSE NoSecret]]

\* Reconcile from its start to the read of the present secret; it returns
\* early at the first step that ends it
ReadEnd(p, r0) ==
  LET pre == Preflight(p, r0)
  IN  IF pre.result # "" THEN [end |-> Return(p, pre.r, pre.result), r |-> IdleRun]
      ELSE LET fetched == Fetch(pre.r)
           IN  IF fetched.result # ""
                 THEN [end |-> [Return(p, fetched.r, fetched.result)
                                  EXCEPT !.fetchErr = fetched.fetchErr],
                       r |-> IdleRun]
                 ELSE LET got == GetSecret(fetched.r)
                      IN  IF got.result # ""
                            THEN [end |-> Return(p, got.r, got.result), r |-> IdleRun]
                            ELSE [end |-> NoReturn, r |-> got.r]

RecRead(p) ==
  /\ p \in queue
  /\ ~Running(p)
  /\ \E r0 \in {Step(Did([IdleRun EXCEPT !.self = p \notin legit], "GetPod", PodNamespace(p)),
                       "Load")} :
     \E out \in {ReadEnd(p, r0)} :
         /\ out.r.pc = "write" => SecretObjectKey(out.r.req) \in SecretKeys
         /\ run' = [run EXCEPT ![p] = out.r]
         /\ ret' = out.end
         /\ queue' = QueueAfter(queue \ {p}, p, out.end.result)
         /\ legit' = LegitAfter(legit \ {p}, p, r0.self, out.end.result)
         /\ \E rr \in {IF out.end = NoReturn THEN out.r ELSE out.end.run} :
              registry' = IF \E i \in DOMAIN rr.ops : rr.ops[i][1] = "ProviderGet"
                            THEN ProvidersAfterGet(registry, rr.req.Provider)
                            ELSE registry
  /\ listed' = NoListed
  /\ UNCHANGED <<registered, asked, secretString, fetchResult, parseResult>>
  /\ UNCHANGED <<script, podNamespace, pods, source, apiFault, secrets, secretEvents, now, ext,
                 last, deleted, producedBy>>

\* variant: a new secret is created and then updated
WriteCallsCreateThenUpdate(secretExists) ==
  IF secretExists THEN <<"Update">> ELSE <<"Create", "Update">>

\* the calls Reconcile makes to write the secret, in their order: r.Update
\* when the Get found the secret, r.Create when it did not
WriteCalls(secretExists) == <<WriteVerb(secretExists)>>

\* one write call as the API answers it
StoreCall(verb, k, stored, obj) ==
  IF apiFault = "Forbidden" THEN [err |-> "Forbidden", secret |-> stored]
  ELSE IF verb = "Delete" THEN StoreDelete(stored)
  ELSE IF verb = "Update" THEN StoreUpdate(stored, obj)
  ELSE IF k[2] \notin DNS1123Labels THEN [err |-> "Invalid", secret |-> stored]
  ELSE StoreCreate(stored, obj)

\* the calls made one after the other up to the first that fails; a call that
\* succeeds fills the object with the version the server gave it
RECURSIVE StoreCalls(_, _, _, _)
StoreCalls(verbs, k, stored, obj) ==
  IF verbs = <<>> THEN [err |-> "", secret |-> stored, made |-> <<>>]
  ELSE LET res == StoreCall(Head(verbs), k, stored, obj)
           rest == StoreCalls(Tail(verbs), k, res.secret, [obj EXCEPT !.rv = res.secret.rv])
       IN  IF res.err # ""
             THEN [err |-> res.err, secret |-> res.secret, made |-> <<Head(verbs)>>]
             ELSE [err |-> rest.err, secret |-> rest.secret,
                   made |-> <<Head(verbs)>> \o rest.made]

RECURSIVE DidCalls(_, _, _)
DidCalls(r, verbs, namespace) ==
  IF verbs = <<>> THEN r
  ELSE DidCalls(Step(Did(r, Head(verbs), namespace), "Write"), Tail(verbs), namespace)

\* variant: the run goes on to the notification after a failed write
AfterWriteNotifyAlways(r, writeErr) ==
  Say(Emit(r, EventReasonSecretSyncSuccess),
      {r.req.SecretName, r.req.Provider, r.req.SecretPath})

\* the end of Reconcile: a failed Update or Create returns its error, a
\* successful one is followed by EmitSecretSyncSuccess
AfterWrite(r, writeErr) ==
  IF writeErr # "" THEN r
  ELSE Say(Emit(r, EventReasonSecretSyncSuccess),
           {r.req.SecretName, r.req.Provider, r.req.SecretPath})

\* merge, set labels and annotations, Update or Create, notify
RecWrite(p) ==
  /\ run[p].pc = "write"
  /\   LET r == run[p]
           k == SecretObjectKey(r.req)
           secretStringData == MergePayload(r.req.KeyMapping, r.secretData)
           secret == DesiredSecret(r.cur, r.req, secretStringData, now)
           verb == WriteVerb(r.secretExists)
           clean == ~r.dirty
       IN  \E res \in {StoreCalls(WriteCalls(r.secretExists), k, secrets[k], secret)} :
           \E r0 \in {Say(DidCalls(Step(r, "Merge"), res.made, k[1]),
                          { kv[1] : kv \in r.req.KeyMapping }
                            \cup { kv[2] : kv \in r.req.KeyMapping }
                            \cup {r.req.SecretName, r.req.Namespace})} :
           /\ secrets[k].rv < MaxRV
           /\ run' = [run EXCEPT ![p] = IdleRun]
           /\ secrets' = [secrets EXCEPT ![k] = res.secret]
           /\ secretEvents' =
                IF res.secret = secrets[k] THEN secretEvents
                ELSE secretEvents \cup {SecretEvent(k, res.secret, TRUE)}
           /\ IF res.err # ""
                THEN /\ ret' = [Return(p, AfterWrite(r0, res.err), "error") EXCEPT
                                  !.writeErr = res.err, !.merged = secretStringData,
                                  !.before = secrets[k]]
                     /\ queue' = queue \cup {p}
                     /\ legit' = LegitAfter(legit, p, r.self, "error")
                     /\ UNCHANGED <<last, deleted, producedBy>>
                ELSE /\ ret' = [Return(p, AfterWrite(r0, ""), "done")
                                  EXCEPT !.merged = secretStringData,
                                         !.wrote = verb,
                                         !.before = secrets[k],
                                         !.written = res.secret,
                                         !.prev = IF clean /\ last[p].valid /\ last[p].key = k
                                                    THEN last[p] ELSE NoLast,
                                         !.recreated =
                                            IF clean /\ verb = "Create" /\ deleted[k].pod = p
                                              THEN deleted[k] ELSE NoDeleted]
                     /\ last' = [q \in Pods |->
                          IF q = p THEN [valid |-> clean, key |-> k, data |-> res.secret.data,
                                         labels |-> res.secret.labels,
                                         syncedAt |-> res.secret.syncedAt]
                          ELSE IF last[q].key = k THEN NoLast
                          ELSE last[q]]
                     /\ deleted' = [deleted EXCEPT ![k] = NoDeleted]
                     /\ producedBy' = [producedBy EXCEPT ![k] =
                          IF verb = "Create" THEN {p} ELSE @ \cup {p}]
                     /\ UNCHANGED <<queue, legit>>
  /\ listed' = NoListed
  /\ UNCHANGED <<parts, script, podNamespace, pods, source, apiFault, now, ext>>

Next ==
  \/ \E p \in Pods, a \in PodAnnotationSets : PodCreate(p, a)
  \/ \E p \in Pods, a \in PodAnnotationSets : PodUpdate(p, a)
  \/ \E p \in Pods : PodDelete(p)
  \/ \E e \in {""} \cup FetchErrors, d \in SourceDatas : SourceChange(e, d)
  \/ \E f \in {""} \cup ApiFaults : ApiFaultChange(f)
  \/ \E k \in SecretKeys, d \in ExternalDatas, l \in ExternalLabelSets : ExternalWrite(k, d, l)
  \/ \E k \in SecretKeys : ExternalDelete(k)
  \/ Tick
  \/ \E e \in secretEvents : HandleSecretEvent(e)
  \/ \E p \in Pods : RecRead(p)
  \/ \E p \in Pods : RecWrite(p)

Spec == Init /\ [][Next]_vars

\* the scheduling of the controller runtime: while there is a queued key, a
\* Reconcile call in flight or a secret event to map, the engine goes on with
\* one of them; the outside and the clock owe nothing
EngineStep ==
  \/ \E e \in secretEvents : HandleSecretEvent(e)
  \/ \E p \in Pods : RecRead(p)
  \/ \E p \in Pods : RecWrite(p)
Fairness == WF_vars(EngineStep)
\* two pods of one namespace that ask for the same secret
FairScenarios ==
  { Scenario(SameNamespace, <<OpPodCreate("p1", t), OpPodCreate("p2", t)>>) :
      t \in {AnnPlain, AnnMapped} }
  \cup
  { Scenario(SameNamespace, <<OpExternalWrite(K1, ManagedLabels),
                              OpPodCreate("p1", t), OpPodCreate("p2", t)>>) :
      t \in {AnnPlain, AnnMapped} }
FairInit ==
  /\ EngineInit(FairScenarios)
  /\ registry = DefaultProviderRegistry
  /\ registered = <<AWSProvider>>
  /\ asked = NoAsked
  /\ secretString = Document("nil", {})
  /\ fetchResult = NoFetched
  /\ parseResult = NoParsed
FairNext ==
  \/ \E p \in Pods, a \in PodAnnotationSets : PodCreate(p, a)
  \/ \E k \in SecretKeys, d \in ExternalDatas, l \in ExternalLabelSets :
       ExternalWrite(k, d, l)
  \/ Tick
  \/ \E e \in secretEvents : HandleSecretEvent(e)
  \/ \E p \in Pods : RecRead(p)
  \/ \E p \in Pods : RecWrite(p)
FairSpec == FairInit /\ [][FairNext]_vars /\ Fairness

\* ------------------------------------------------ the registry on its own
\* a new registry, and nothing going on in the cluster
RegistryInit ==
  /\ EngineInit({Scenario(SameNamespace, <<>>)})
  /\ registry = NewProviderRegistry
  /\ registered = <<>>
  /\ asked = NoAsked
  /\ secretString = Document("nil", {})
  /\ fetchResult = NoFetched
  /\ parseResult = NoParsed

RegisterCall(provider) ==
  /\ Len(registered) < MaxRegister
  /\ registry' = Register(registry, provider)
  /\ registered' = Append(registered, provider)
  /\ asked' = NoAsked
  /\ UNCHANGED <<engine, secretString, fetchResult, parseResult>>

GetCall(name) ==
  /\ asked' = [called |-> TRUE, name |-> name, provider |-> RegistryGet(registry, name)]
  /\ registry' = ProvidersAfterGet(registry, name)
  /\ UNCHANGED <<engine, registered, secretString, fetchResult, parseResult>>

RegistryNext ==
  \/ \E provider \in Providers : RegisterCall(provider)
  \/ \E name \in ProviderNames : GetCall(name)

SpecRegistry == RegistryInit /\ [][RegistryNext]_vars

\* ------------------------------------------------ FetchSecret on its own
\* the AWS provider and any answer GetSecretValue may give it
ProviderInit ==
  /\ EngineInit({Scenario(SameNamespace, <<>>)})
  /\ registry = DefaultProviderRegistry
  /\ registered = <<AWSProvider>>
  /\ asked = NoAsked
  /\ secretString \in SecretStrings
  /\ fetchResult = NoFetched
  /\ parseResult = NoParsed

FetchSecretCall ==
  /\ ~fetchResult.called
  /\ fetchResult' = [called |-> TRUE, err |-> FetchSecretString(secretString).err,
                 data |-> FetchSecretString(secretString).data]
  /\ UNCHANGED <<engine, registry, registered, asked, secretString, parseResult>>

ProviderNext == FetchSecretCall

SpecProvider == ProviderInit /\ [][ProviderNext]_vars

\* ------------------------------------------- ParseAnnotation on its own
\* the parser called on any text, for any pod
ParserInit ==
  /\ EngineInit({Scenario(SameNamespace, <<>>)})
  /\ registry = DefaultProviderRegistry
  /\ registered = <<AWSProvider>>
  /\ asked = NoAsked
  /\ secretString = Document("nil", {})
  /\ fetchResult = NoFetched
  /\ parseResult = NoParsed

ParseAnnotationCall(text, namespace, podName, podUID) ==
  /\ \E out \in {ParseAnnotation(AnnotationValue(text), namespace, podName, podUID)} :
       parseResult' = [called |-> TRUE, text |-> text, namespace |-> namespace,
                       podName |-> podName, podUID |-> podUID,
                       err |-> out.err, req |-> out.req]
  /\ UNCHANGED <<engine, registry, registered, asked, secretString, fetchResult>>

ParserNext ==
  /\ ~parseResult.called
  /\ \E text \in YamlTexts, namespace \in Namespaces, podName \in Pods, podUID \in PodUIDs :
       ParseAnnotationCall(text, namespace, podName, podUID)

SpecParser == ParserInit /\ [][ParserNext]_vars

\* ================================================================= properties
\* the names of the calls a run has made, and those that touch a secret
Ops(r) == { r.ops[i][1] : i \in DOMAIN r.ops }
SecretOps == {"GetSecret", "Create", "Update"}
Events(r) == { r.events[i] : i \in DOMAIN r.events }
Returned == ret.pod # ""
\* the runs in flight and the run that has just returned
Calls == { [pod |-> p, r |-> run[p]] : p \in { q \in Pods : Running(q) } }
         \cup (IF Returned THEN { [pod |-> ret.pod, r |-> ret.run] } ELSE {})
WroteSecret == Returned /\ ret.result = "done" /\ ret.wrote # ""

\* C1: after a successful Reconcile that updated an existing secret, the
\* stored payload is exactly the merged payload of this run (full replace:
\* no key of the old payload outside the merged payload is left).
C1_FullReplace ==
  (WroteSecret /\ ret.wrote = "Update") => ret.written.data = ret.merged

\* C2: a fetch that fails with a permanent error ends the run
\* with SecretFetchFailed, terminal success (no error, no requeue), and no
\* secret created or changed.
C2_PermanentIsTerminal ==
  (Returned /\ ret.fetchErr \in PermanentFetchErrors) =>
     /\ ret.run.events = <<EventReasonSecretFetchFailed>>
     /\ ret.result = "done"
     /\ ret.pod \notin queue
     /\ Ops(ret.run) \cap SecretOps = {}

\* C3: a reconciliation that was queued only because of the engine's own
\* create or update of a managed secret (no pod event, no change of the
\* secret from outside, no retry of a failed run) makes no call to the
\* provider.
C3_NoFetchWhenStable ==
  \A c \in Calls : c.r.self => "Fetch" \notin Ops(c.r)

\* C4: when the pod that alone produced a managed secret recreates it after
\* it was deleted from outside (source data and annotation unchanged since
\* the last synchronisation), the new payload equals the payload the secret
\* had before the deletion.
\* The reverse lookup for the deletion finds that pod and no other.
ListedKey == <<listed.secretNamespace, listed.name>>
C4_RecreatedPayloadEqual ==
  /\ (WroteSecret /\ ret.recreated.valid) => ret.written.data = ret.recreated.data
  /\ (ListedKey \in SecretKeys /\ ~listed.self /\ deleted[ListedKey].valid) =>
        listed.found = {deleted[ListedKey].pod}

\* C5: a write that rests on a stale read of the secret (created, updated
\* or deleted since the read) is rejected: the run returns an error and is
\* queued again, emits no SecretSyncSuccess and leaves the stored secret as
\* it was; a write that succeeds rests on the present secret, so the stored
\* secret is the result of that one write.
StaleRead(r, before) ==
  IF r.secretExists THEN ~before.exists \/ before.rv # r.cur.rv ELSE before.exists
AttemptedWrite == Returned /\ Ops(ret.run) \cap {"Create", "Update"} # {}
C5_StaleWriteRejected ==
  AttemptedWrite =>
    LET k == SecretObjectKey(ret.run.req)
    IN  /\ StaleRead(ret.run, ret.before) =>
             /\ ret.result = "error"
             /\ ret.pod \in queue
             /\ EventReasonSecretSyncSuccess \notin Events(ret.run)
             /\ secrets[k] = ret.before
        /\ ret.result = "done" =>
             /\ ~StaleRead(ret.run, ret.before)
             /\ secrets[k] = ret.written
             /\ ret.written.data = Overlay(ret.before.data, ret.merged)

C5_Witness ==
  /\ AttemptedWrite
  /\ StaleRead(ret.run, ret.before)
  /\ ret.writeErr \in {"Conflict", "AlreadyExists"}
  /\ producedBy[SecretObjectKey(ret.run.req)] \ {ret.pod} \subseteq Pods
  /\ producedBy[SecretObjectKey(ret.run.req)] \ {ret.pod} # {}

\* C6: with a non-empty key mapping, the payload Reconcile writes has as keys
\* exactly the target keys whose source key is in the fetched data, each with
\* the value of its source key; and a secret it creates holds that payload.
C6_MappedPayload ==
  (WroteSecret /\ ret.run.req.KeyMapping # {}) =>
     LET m == ret.run.req.KeyMapping
         d == ret.run.secretData
     IN  /\ Keys(ret.merged) = { e[1] : e \in { f \in m : Has(d, f[2]) } }
         /\ \A e \in m : Has(d, e[2]) => <<e[1], Lookup(d, e[2])>> \in ret.merged
         /\ Cardinality(ret.merged) = Cardinality(Keys(ret.merged))
         /\ ret.wrote = "Create" => ret.written.data = ret.merged

C6_Witness ==
  /\ WroteSecret
  /\ ret.run.req.KeyMapping # {}
  /\ \E e \in ret.run.req.KeyMapping : ~Has(ret.run.secretData, e[2])
  /\ \E e \in ret.run.req.KeyMapping : Has(ret.run.secretData, e[2])
  /\ Keys(ret.run.secretData) \cap Keys(ret.merged) = {}

\* C7: with no key mapping (absent or without entries), the payload Reconcile
\* writes is the fetched data: same keys, same values; and a secret it
\* creates holds that payload.
C7_VerbatimPayload ==
  (WroteSecret /\ ret.run.req.KeyMapping = {}) =>
     /\ ret.merged = ret.run.secretData
     /\ ret.wrote = "Create" => ret.written.data = ret.run.secretData

C7_Witness ==
  /\ WroteSecret
  /\ ret.run.req.KeyMapping = {}
  /\ ret.wrote = "Create"
  /\ ret.written.data = SourceData1

\* C8: a successful run that follows a successful run for the same pod, with
\* annotation, source data and secret untouched in between, leaves the same
\* payload, labels and source path; the synced-at of the second is not
\* before that of the first.
C8_Idempotent ==
  (WroteSecret /\ ret.prev.valid) =>
     /\ ret.written.data = ret.prev.data
     /\ ret.written.labels = ret.prev.labels
     /\ ret.written.syncedAt >= ret.prev.syncedAt

C8_Witness ==
  /\ WroteSecret
  /\ ret.prev.valid
  /\ ret.written.syncedAt > ret.prev.syncedAt

\* C9: every read, create and update of a secret by a run for pod P is in
\* P's namespace, every reverse lookup lists the pods of the secret's
\* namespace, and a secret is written only by pods of its own namespace.
C9_NamespaceIsolation ==
  /\ \A c \in Calls : \A i \in DOMAIN c.r.ops :
        c.r.ops[i][1] \in SecretOps => c.r.ops[i][2] = PodNamespace(c.pod)
  /\ listed.listNamespace \in {"", listed.secretNamespace}
  /\ \A p \in listed.found : PodNamespace(p) = listed.secretNamespace
  /\ \A k \in SecretKeys : \A p \in producedBy[k] \cap Pods : PodNamespace(p) = k[1]

C9_Witness ==
  /\ PodNamespace("p1") # PodNamespace("p2")
  /\ producedBy[K1] = {"p1"}
  /\ producedBy[K2] = {"p2"}
  /\ secrets[K1].exists /\ secrets[K2].exists
  /\ WroteSecret /\ ret.pod = "p2"

\* C10: a run whose annotation names a namespace other than the pod's ends
\* with AnnotationInvalid and terminal success, without fetch and without
\* touching a secret.
NamesOtherNamespace(p, r) ==
  /\ r.found
  /\ r.annotationValue.kind = "yaml"
  /\ r.annotationValue.namespace \notin {"", PodNamespace(p)}
C10_NamespaceMismatchRejected ==
  /\ \A p \in Pods : Running(p) => ~NamesOtherNamespace(p, run[p])
  /\ (Returned /\ NamesOtherNamespace(ret.pod, ret.run)) =>
        /\ ret.run.events = <<EventReasonAnnotationInvalid>>
        /\ ret.result = "done"
        /\ Ops(ret.run) \cap ({"Fetch"} \cup SecretOps) = {}

\* the annotation text does not parse: empty, not YAML, or a required field
\* absent (or empty)
MissingFields(t) ==
  { f \in {"provider", "path", "secretName"} :
      \/ f = "provider" /\ t.provider = ""
      \/ f = "path" /\ t.path = ""
      \/ f = "secretName" /\ t.secretName = "" }
InvalidText(t) == t.kind # "yaml" \/ MissingFields(t) # {}

\* C11: a run that finds the annotation and cannot parse it (empty text,
\* malformed text, a required field missing) emits exactly one
\* AnnotationInvalid, returns terminal success with the pod not queued again,
\* and has made no provider lookup, no fetch and no read, create or update
\* of a secret.
C11_ParseFailureIsTerminal ==
  /\ \A p \in Pods : Running(p) => ~InvalidText(run[p].annotationValue)
  /\ (Returned /\ ret.run.found /\ InvalidText(ret.run.annotationValue)) =>
        /\ ret.run.events = <<EventReasonAnnotationInvalid>>
        /\ ret.result = "done"
        /\ ret.pod \notin queue
        /\ Ops(ret.run) = {"GetPod"}

C11_Witness ==
  /\ Returned /\ ret.run.found
  /\ ret.run.annotationValue = AnnMalformed
  /\ ret.run.events = <<EventReasonAnnotationInvalid>>
  /\ \E k \in SecretKeys : secrets[k].exists

\* C12: a run whose annotation parses and names a provider that is not
\* registered emits ProviderUnsupported, returns terminal success with the
\* pod not queued again, and has made no fetch and no read, create or update
\* of a secret.
UnknownProvider(t) == ~InvalidText(t) /\ ~Has(DefaultProviderRegistry, t.provider)
C12_UnknownProviderIsTerminal ==
  /\ \A p \in Pods : Running(p) => ~UnknownProvider(run[p].annotationValue)
  /\ (Returned /\ ret.run.found /\ UnknownProvider(ret.run.annotationValue)) =>
        /\ ret.run.events = <<EventReasonProviderUnsupported>>
        /\ ret.result = "done"
        /\ ret.pod \notin queue
        /\ Ops(ret.run) = {"GetPod", "ProviderGet"}

C12_Witness ==
  /\ Returned /\ ret.run.found
  /\ ret.run.annotationValue = AnnVault
  /\ ret.run.events = <<EventReasonProviderUnsupported>>
  /\ \E k \in SecretKeys : secrets[k].exists

\* C16: for a text that is YAML and lacks at least one of provider, path,
\* secretName, the parse fails with the error that names the first absent
\* field in the order provider, path, secretName, and gives no request.
FirstMissing(t) ==
  IF t.provider = "" THEN "provider" ELSE IF t.path = "" THEN "path" ELSE "secretName"
FieldRequired(f) ==
  IF f = "provider" THEN "provider field is required"
  ELSE IF f = "path" THEN "path field is required"
  ELSE "secretName field is required"
C16_MissingFieldNamed ==
  \A c \in Calls :
    (c.r.found /\ c.r.annotationValue.kind = "yaml" /\ MissingFields(c.r.annotationValue) # {}) =>
       /\ c.r.parseErr = FieldRequired(FirstMissing(c.r.annotationValue))
       /\ FirstMissing(c.r.annotationValue) \in MissingFields(c.r.annotationValue)
       /\ c.r.req = NoRequest

C16_Witness ==
  /\ Returned /\ ret.run.found
  /\ ret.run.annotationValue = AnnNoPath
  /\ ret.run.parseErr = "path field is required"

\* C17: every request a run works on has a secret name that is a DNS-1123
\* label: a text whose secretName is not one is rejected by the parse, so
\* no run reaches the fetch or a write with such a name.
C17_SecretNameValid ==
  \A c \in Calls : c.r.req # NoRequest => c.r.req.SecretName \in DNS1123Labels

\* C13: a fetch that fails with a transient error ends the run with
\* SecretFetchFailed and a retryable failure (the pod is queued again), and
\* the run has read, created and updated no secret.
C13_TransientIsRetried ==
  (Returned /\ ret.fetchErr \in TransientFetchErrors) =>
     /\ ret.run.events = <<EventReasonSecretFetchFailed>>
     /\ ret.result \in {"requeue_error", "error"}
     /\ ret.pod \in queue
     /\ Ops(ret.run) \cap SecretOps = {}
     /\ ret.wrote = ""

C13_Witness ==
  /\ Returned
  /\ ret.fetchErr = "Throttled"
  /\ ret.pod \in queue
  /\ \E k \in SecretKeys : secrets[k].exists /\ ret.pod \in producedBy[k]

\* C14: every run for an existing pod that carries the annotation and does
\* not end with SecretSyncSuccess has emitted at least one warning
\* (AnnotationInvalid, ProviderUnsupported or SecretFetchFailed) when it
\* returns, also when the read of the secret or its create or update failed.
Warnings ==
  {EventReasonAnnotationInvalid, EventReasonProviderUnsupported, EventReasonSecretFetchFailed}
C14_NeverSilent ==
  (Returned /\ ret.run.found /\ EventReasonSecretSyncSuccess \notin Events(ret.run)) =>
     Events(ret.run) \cap Warnings # {}

\* C18: a write refused with Forbidden is absorbed (a notification, terminal
\* success, the pod not queued again); a write refused with Conflict is
\* returned as a failure and the pod queued again.
C18_ForbiddenAbsorbed ==
  /\ (Returned /\ ret.writeErr = "Forbidden") =>
        /\ ret.result = "done"
        /\ ret.run.events # <<>>
  /\ (Returned /\ ret.writeErr = "Conflict") =>
        /\ ret.result = "error"
        /\ ret.pod \in queue

\* C15: no notification and no log record of a run contains content of the
\* fetched secret: neither a value of the fetched data nor a character of a
\* SecretString that failed to parse.
SecretContent(src) ==
  { kv[2] : kv \in src.data } \cup { src.text[i] : i \in DOMAIN src.text }
C15_NoSecretInDiagnostics ==
  /\ (Returned /\ ret.fetchErr # "") => ret.run.said \cap SecretContent(source) = {}
  /\ \A c \in Calls : c.r.said \cap { kv[2] : kv \in c.r.secretData } = {}

\* C19: the engine issues no delete: no call of a run is a Delete, a secret
\* that exists stops existing only in a step of the outside that deletes
\* it, and a pod only in a step of the outside that deletes that pod.
IssuedNoDelete == \A c \in Calls : "Delete" \notin Ops(c.r)
C19_NeverDeletes ==
  [][ /\ IssuedNoDelete'
      /\ \A k \in SecretKeys : (secrets[k].exists /\ ~secrets'[k].exists) =>
            /\ ext' = ext + 1
            /\ script[ext'] = OpExternalDelete(k)
      /\ \A p \in Pods : (pods[p].exists /\ ~pods'[p].exists) =>
            /\ ext' = ext + 1
            /\ script[ext'] = OpPodDelete(p) ]_vars

C19_Witness ==
  /\ Returned /\ ~ret.run.found
  /\ ~pods[ret.pod].exists
  /\ Ops(ret.run) = {"GetPod"}
  /\ \E k \in SecretKeys :
        secrets[k].exists /\ IsManaged(secrets[k]) /\ ret.pod \in producedBy[k]

C21_SuccessIffWrote ==
  /\ \A p \in Pods : Running(p) => EventReasonSecretSyncSuccess \notin Events(run[p])
  /\ Returned =>
       LET r == ret.run
           succeeded == /\ ret.result = "done" /\ ret.writeErr = ""
                        /\ Ops(r) \cap {"Create", "Update"} # {}
       IN  /\ EventReasonSecretSyncSuccess \in Events(r) <=> succeeded
           /\ EventReasonSecretSyncSuccess \in Events(r) =>
                /\ r.events = <<EventReasonSecretSyncSuccess>>
                /\ Len(r.steps) >= 2
                /\ r.steps[Len(r.steps)] = "Notify"
                /\ r.steps[Len(r.steps) - 1] = "Write"
                /\ r.ops[Len(r.ops)][1] \in {"Create", "Update"}
C21_Witness ==
  /\ WroteSecret /\ ret.wrote = "Update"
  /\ ret.run.events = <<EventReasonSecretSyncSuccess>>
  /\ ret.before # ret.written

\* C22: after any sequence of Register calls, Get of a name returns the
\* provider registered last under that name, and nil (not a failure, not
\* some other provider) for a name that was never registered.
LastRegistered(name) ==
  LET at == { i \in DOMAIN registered : registered[i].name = name }
  IN  IF at = {} THEN NilProvider
      ELSE registered[CHOOSE i \in at : \A j \in at : j <= i]
C22_LastRegistrationWins ==
  /\ asked.called => asked.provider = LastRegistered(asked.name)
  /\ \A name \in ProviderNames : RegistryGet(registry, name) = LastRegistered(name)
C22_Witness ==
  /\ asked.called /\ asked.provider # NilProvider
  /\ \E i \in DOMAIN registered :
       registered[i].name = asked.name /\ registered[i] # asked.provider

\* C23: FetchSecret turns a SecretString that is a JSON object into a map with
\* the same keys, in which a string is unchanged, an integer number is its
\* decimal text, a boolean is "true" or "false", null is the empty string and
\* an array or object is its JSON text; a SecretString that is not a JSON
\* object yields an error and no data.
ClaimedText(v) ==
  CASE v.t = "string" -> v.s
    [] v.t = "number" -> ToString(v.n)
    [] v.t = "bool" -> IF v.b THEN "true" ELSE "false"
    [] v.t = "null" -> ""
    [] v = JsonArray1 -> "[\"host1\",5432]"
    [] v = JsonObject1 -> "{\"a\":1,\"b\":null}"
C23_ValueConversion ==
  fetchResult.called =>
    IF secretString.kind = "object"
      THEN /\ fetchResult.err = ""
           /\ Keys(fetchResult.data) = Keys(secretString.members)
           /\ \A kv \in secretString.members :
                Lookup(fetchResult.data, kv[1]) = ClaimedText(kv[2])
      ELSE fetchResult.err # "" /\ fetchResult.data = {}
\* the same but for the two inputs the code treats otherwise: integers of
\* seven digits or more, and the JSON text null
C23_SmallIntegersAndObjects ==
  (/\ fetchResult.called
   /\ secretString.kind # "null"
   /\ \A kv \in secretString.members : kv[2].t = "number" => kv[2].n < 1000000) =>
    IF secretString.kind = "object"
      THEN /\ fetchResult.err = ""
           /\ Keys(fetchResult.data) = Keys(secretString.members)
           /\ \A kv \in secretString.members :
                Lookup(fetchResult.data, kv[1]) = ClaimedText(kv[2])
      ELSE fetchResult.err # "" /\ fetchResult.data = {}
C23_LargeInteger ==
  fetchResult.called /\ <<"port", "1.234567e+06">> \in fetchResult.data
C23_NullDocument ==
  fetchResult.called /\ secretString.kind = "null" /\ fetchResult.err = ""

\* C24 as claimed: every successful write carries a payload made from the
\* data the source holds at that time (so the first run to succeed after a
\* change of the source writes the new data).
C24_PayloadFromPresentSource ==
  WroteSecret => ret.merged = MergePayload(ret.run.req.KeyMapping, source.data)

\* C24: nothing is cached.  Every run that gets to the fetch calls the
\* provider exactly once; the data it holds are those the source had at that
\* call; the payload it writes is made from these data alone; so a run that
\* fetched after the last change of the source and succeeds writes a payload
\* made from the present source data.
SourceChangedSince(r) ==
  \E i \in (r.fetchedAt + 1)..ext : script[i].op = "SourceChange"
FetchCalls(r) == { i \in DOMAIN r.ops : r.ops[i][1] = "Fetch" }
C24_NoCaching ==
  /\ \A c \in Calls : c.r.pc # "idle" => Cardinality(FetchCalls(c.r)) = 1
  /\ \A p \in Pods :
       (run[p].pc = "write" /\ ~SourceChangedSince(run[p])) => run[p].secretData = source.data
  /\ WroteSecret =>
       /\ ret.merged = MergePayload(ret.run.req.KeyMapping, ret.run.secretData)
       /\ ~SourceChangedSince(ret.run) =>
            ret.merged = MergePayload(ret.run.req.KeyMapping, source.data)
C24_Witness ==
  /\ WroteSecret /\ ret.wrote = "Update"
  /\ source.data = SourceData2 /\ ret.run.fetchedAt > 1
  /\ ~SourceChangedSince(ret.run)
  /\ ret.merged = SourceData2
  /\ ret.before.data # ret.written.data

\* C25: a run that finds its pod gone ends at once as a success: no error, no
\* requeue, no notification, no call but the Get of the pod (no provider
\* lookup, no fetch, no secret read or written).
C25_PodGoneIsNoop ==
  (Returned /\ ret.run.pc # "write" /\ ~pods[ret.pod].exists) =>
     /\ ret.result = "done"
     /\ ret.pod \notin queue
     /\ ret.run.events = <<>>
     /\ ret.run.ops = <<<<"GetPod", PodNamespace(ret.pod)>>>>
     /\ ret.run.steps = <<"Load">>
C25_Witness ==
  /\ Returned /\ ret.run.pc # "write" /\ ~pods[ret.pod].exists
  /\ ret.result = "done"
  /\ \E k \in SecretKeys : secrets[k].exists /\ IsManaged(secrets[k]) /\ last[ret.pod].key = k

\* C26: a run for a pod that exists and carries no sync annotation ends as a
\* success: no error, no requeue, no notification, no provider lookup, no
\* fetch and no call on a secret, also when a managed secret is there in the
\* namespace of the pod.
C26_NoAnnotationIsNoop ==
  (/\ Returned /\ ret.run.pc # "write"
   /\ pods[ret.pod].exists /\ ~Has(pods[ret.pod].annotations, AnnotationKey)) =>
     /\ ret.result = "done"
     /\ ret.pod \notin queue
     /\ ret.run.events = <<>>
     /\ ret.run.ops = <<<<"GetPod", PodNamespace(ret.pod)>>>>
     /\ ret.run.steps = <<"Load", "Extract">>
C26_Witness ==
  /\ Returned /\ ret.run.pc # "write"
  /\ pods[ret.pod].exists /\ ~Has(pods[ret.pod].annotations, AnnotationKey)
  /\ ret.result = "done"
  /\ \E k \in SecretKeys :
       k[1] = PodNamespace(ret.pod) /\ secrets[k].exists /\ IsManaged(secrets[k])

\* the payload both pods ask for: the source data under their annotation
RequestedPayload(p) ==
  LET t == Lookup(pods[p].annotations, AnnotationKey)
  IN  IF t.keys = {} THEN source.data
      ELSE { <<m[1], Lookup(source.data, m[2])>> :
               m \in { n \in t.keys : Has(source.data, n[2]) } }
SameRequest(p, q) ==
  /\ pods[p].exists /\ pods[q].exists
  /\ pods[p].annotations = pods[q].annotations
  /\ RequestedKey(p) \in SecretKeys /\ RequestedKey(p) = RequestedKey(q)
NoChangeLeft == ext = MaxExt \/ ext = Len(script)
BothWrote(p, q) ==
  /\ {p, q} \subseteq producedBy[RequestedKey(p)]
  /\ secrets[RequestedKey(p)].exists
Converged(p, q) ==
  BothWrote(p, q) /\ secrets[RequestedKey(p)].data = RequestedPayload(p)
\* C27: when two pods of one namespace ask for the same secret with the same
\* annotation (same path, same mapping) and nothing outside changes any more,
\* then, the runs being scheduled fairly and retried after a lost write, the
\* secret comes to be written by both pods and to hold the merged payload of
\* the source data.
C27_BothConverge ==
  (SameRequest("p1", "p2") /\ NoChangeLeft /\ source.err = "" /\ apiFault = "")
    ~> (SameRequest("p1", "p2") /\ Converged("p1", "p2"))
\* what does hold: both pods come to write the secret, which then holds every
\* key of the merged payload with its value, and nothing else when it was not
\* there before the pods
C27_BothWrite ==
  (SameRequest("p1", "p2") /\ NoChangeLeft /\ source.err = "" /\ apiFault = "")
    ~> (/\ SameRequest("p1", "p2") /\ BothWrote("p1", "p2")
        /\ RequestedPayload("p1") \subseteq secrets[RequestedKey("p1")].data
        /\ "external" \notin producedBy[RequestedKey("p1")] => Converged("p1", "p2"))
\* both have written after one of them lost the race for the secret
C27_LostRace ==
  /\ SameRequest("p1", "p2") /\ NoChangeLeft /\ Converged("p1", "p2")
  /\ Returned /\ ret.wrote = "Update" /\ ret.run.self = FALSE

\* the steps of a run but its notifications
CoreSteps(r) == SelectSeq(r.steps, LAMBDA x : x # "Notify")
IsPrefix(a, b) == Len(a) <= Len(b) /\ a = SubSeq(b, 1, Len(a))
NotifyLast(r) ==
  \A i \in DOMAIN r.steps : r.steps[i] = "Notify" => i = Len(r.steps)
WriteAfterFetch(r) ==
  "Write" \in { r.steps[i] : i \in DOMAIN r.steps } =>
     /\ "Fetch" \in { r.steps[i] : i \in DOMAIN r.steps }
     /\ EventReasonSecretFetchFailed \notin Events(r)

\* C28 as claimed: the steps of a run are, in this order and with none left
\* out, Load, Extract, Validate, Namespace Check, Provider Resolve, Fetch,
\* Merge, Upsert (the read of the present secret, then the write), Notify.
ClaimedStepOrder ==
  <<"Load", "Extract", "Validate", "NamespaceCheck", "ProviderResolve", "Fetch",
    "Merge", "ReadSecret", "Write">>
C28_ClaimedOrder ==
  \A c \in Calls :
    IsPrefix(CoreSteps(c.r), ClaimedStepOrder) /\ NotifyLast(c.r) /\ WriteAfterFetch(c.r)

\* C28: the steps of a run are, in this order and with none left out, Load,
\* Extract, Validate, Namespace Check, Provider Resolve, Fetch, the read of
\* the present secret, Merge, the write, Notify; a notification is the last
\* step of its run; no write is made but after a fetch that succeeded.
C28_StepOrder ==
  \A c \in Calls :
    IsPrefix(CoreSteps(c.r), StepOrder) /\ NotifyLast(c.r) /\ WriteAfterFetch(c.r)
C28_Witness ==
  /\ WroteSecret /\ ret.wrote = "Create"
  /\ ret.run.steps = StepOrder \o <<"Notify">>

\* C29: a run makes at most one call that changes the store, a Create or an
\* Update, and it is the last call of the run; a run that has not made it
\* (in flight, given up, or ended early) has changed no secret: the secrets
\* change only by a step from outside or by the one write of a run, and then
\* only the secret the run asks for.
Mutations(r) == { i \in DOMAIN r.ops : r.ops[i][1] \in {"Create", "Update", "Delete"} }
OneWriteLast(r) ==
  /\ Cardinality(Mutations(r)) <= 1
  /\ \A i \in Mutations(r) : i = Len(r.ops) /\ r.ops[i][1] \in {"Create", "Update"}
C29_SingleFinalWrite ==
  [][ /\ \A p \in Pods : OneWriteLast(run'[p]) /\ Mutations(run'[p]) = {}
      /\ OneWriteLast(ret'.run)
      /\ secrets' # secrets =>
           \/ ext' = ext + 1
           \/ /\ ret'.pod # "" /\ Cardinality(Mutations(ret'.run)) = 1
              /\ run[ret'.pod].pc = "write"
              /\ \A k \in SecretKeys :
                   secrets'[k] # secrets[k] => k = SecretObjectKey(ret'.run.req) ]_vars
C29_Witness ==
  /\ WroteSecret /\ ret.before # ret.written
  /\ [i \in DOMAIN ret.run.ops |-> ret.run.ops[i][1]]
       = <<"GetPod", "ProviderGet", "Fetch", "GetSecret", "Update">>
  /\ \E p \in Pods : run[p].pc = "write" /\ SecretObjectKey(run[p].req) = SecretObjectKey(ret.run.req)

\* C30: the reverse lookup for an event on a secret enqueues no pod when the
\* secret does not carry the managed-by label, and otherwise exactly the pods
\* of the secret's namespace that carry the sync annotation, whose annotation
\* parses and validates (required fields there, no namespace other than the
\* pod's own named) and names the secret.
Candidates(validates(_, _)) ==
  IF <<ManagedByLabel, ManagedByValue>> \notin listed.labels THEN {}
  ELSE { p \in Pods :
           /\ pods[p].exists
           /\ PodNamespace(p) = listed.secretNamespace
           /\ \E kv \in pods[p].annotations :
                /\ kv[1] = AnnotationKey
                /\ validates(p, kv[2])
                /\ kv[2].secretName = listed.name }
ParsesAndValidates(p, t) == ~InvalidText(t) /\ t.namespace \in {"", PodNamespace(p)}
C30_ReverseLookupExact ==
  listed.name # "" => listed.found = Candidates(ParsesAndValidates)
\* the same with the validation ParseAnnotation does (the required fields)
Parses(p, t) == ~InvalidText(t)
C30_ReverseLookupParsed ==
  listed.name # "" => listed.found = Candidates(Parses)
C30_SeveralPods ==
  listed.name # "" /\ listed.found = {"p1", "p2"} /\ ~listed.self

\* ---- ParseAnnotation, stated of the text as written
\* what is written under a key: the text of a scalar, nothing otherwise
Written(n) == IF n.tag \in {"str", "int"} THEN n.text ELSE ""
IsScalarOrNone(n) == n.tag \in {"absent", "null", "str", "int"}
\* the text has the format: a mapping (or nothing but white space) with a
\* scalar under provider, path and secretName, and under keys a mapping of
\* distinct keys to scalars
HasFormat(text) ==
  /\ text.form \in {"blank", "mapping"}
  /\ IsScalarOrNone(text.provider) /\ IsScalarOrNone(text.path)
  /\ IsScalarOrNone(text.secretName)
  /\ \/ text.keys.tag \in {"absent", "null"}
     \/ /\ text.keys.tag = "map"
        /\ \A i \in DOMAIN text.keys.entries : IsScalarOrNone(text.keys.entries[i][2])
        /\ \A i, j \in DOMAIN text.keys.entries :
             text.keys.entries[i][1] = text.keys.entries[j][1] => i = j
HasRequiredFields(text) ==
  Written(text.provider) # "" /\ Written(text.path) # "" /\ Written(text.secretName) # ""
EmptyPayload == {"annotation value is empty"}
MalformedPayload == {"failed to parse annotation YAML"}
MissingField == {"provider field is required", "path field is required",
                 "secretName field is required"}
\* C31: ParseAnnotation returns a request exactly when the text is not empty,
\* has the format and has a provider, a path and a secretName that are not
\* empty; otherwise it returns an error and no request: EmptyPayload for the
\* empty text, else MalformedPayload for a text that has not the format, else
\* MissingField.
C31_ParseClassifies ==
  parseResult.called =>
    LET text == parseResult.text
        valid == text.form # "empty" /\ HasFormat(text) /\ HasRequiredFields(text)
    IN  /\ (parseResult.err = "") <=> valid
        /\ (parseResult.err = "") <=> (parseResult.req # NoRequest)
        /\ ~valid =>
             parseResult.err \in
               IF text.form = "empty" THEN EmptyPayload
               ELSE IF ~HasFormat(text) THEN MalformedPayload
               ELSE MissingField
\* a text with no secretName and a scalar under keys: malformed comes first
C31_Witness ==
  /\ parseResult.called /\ parseResult.text.form = "mapping"
  /\ parseResult.text.secretName = YAbsent /\ parseResult.text.keys = YStr("a")
  /\ parseResult.err \in MalformedPayload /\ parseResult.req = NoRequest

\* C32: a request ParseAnnotation returns has the provider, the path and the
\* secretName written in the text, a key mapping with exactly the entries
\* written under keys (same target keys, each with the source key written for
\* it), and the namespace, the pod name and the pod UID handed in by the
\* caller.
C32_CarriedThrough ==
  (parseResult.called /\ parseResult.err = "") =>
    LET text == parseResult.text
        req == parseResult.req
    IN  /\ req.Provider = Written(text.provider)
        /\ req.SecretPath = Written(text.path)
        /\ req.SecretName = Written(text.secretName)
        /\ req.KeyMapping = { <<text.keys.entries[i][1], Written(text.keys.entries[i][2])>> :
                                i \in DOMAIN text.keys.entries }
        /\ req.Namespace = parseResult.namespace
        /\ req.PodName = parseResult.podName
        /\ req.PodUID = parseResult.podUID
\* two entries under keys, one of them with nothing written for its source
\* key, and a namespace written in the text that is not the caller's
C32_Witness ==
  /\ parseResult.called /\ parseResult.err = ""
  /\ parseResult.text.keys = YMap(<<<<"x", YStr("a")>>, <<"y", YNull>>>>)
  /\ parseResult.text.namespace = YStr("ns2") /\ parseResult.namespace = "ns1"
  /\ parseResult.req.KeyMapping = {<<"x", "a">>, <<"y", "">>}
  /\ parseResult.req.Namespace = "ns1"

\* C33: after startup the registry is never changed: in every state, with
\* runs of several pods in flight or returned and after any reverse lookup, it
\* is the registry DefaultProviderRegistry returned, and Get answers for every
\* name as it did then.
AskedNames == ProviderNames \cup { t.provider : t \in AnnTexts }
C33_RegistryReadOnly ==
  /\ registry = DefaultProviderRegistry
  /\ \A name \in AskedNames :
       RegistryGet(registry, name) = RegistryGet(DefaultProviderRegistry, name)
\* a run has looked up a name that is not registered
C33_Witness ==
  /\ Returned /\ EventReasonProviderUnsupported \in Events(ret.run)
  /\ ~Has(DefaultProviderRegistry, ret.run.req.Provider)
  /\ RegistryGet(registry, ret.run.req.Provider) = NilProvider
\* a run has returned after its lookup while the run of another pod is in
\* flight
C33_Concurrent ==
  /\ Returned /\ \E i \in DOMAIN ret.run.ops : ret.run.ops[i][1] = "ProviderGet"
  /\ \E p \in Pods : p # ret.pod /\ run[p].pc = "write"

\* C34: a run with a key mapping of which some or all source keys are not in
\* the fetched data goes on to its write and fails only if the API refuses
\* that write: it writes the entries whose source key is there (none when all
\* are absent), notifies SecretSyncSuccess and nothing else, and returns
\* success; a secret it creates holds exactly those entries.
AbsentEntries(r) == { e \in r.req.KeyMapping : ~Has(r.secretData, e[2]) }
C34_AbsentSourceKeys ==
  (/\ Returned /\ "Merge" \in { ret.run.steps[i] : i \in DOMAIN ret.run.steps }
   /\ AbsentEntries(ret.run) # {} /\ ret.writeErr = "") =>
     /\ ret.result = "done" /\ ret.wrote # ""
     /\ ret.run.events = <<EventReasonSecretSyncSuccess>>
     /\ ret.merged = { <<e[1], Lookup(ret.run.secretData, e[2])>> :
                         e \in ret.run.req.KeyMapping \ AbsentEntries(ret.run) }
     /\ ret.wrote = "Create" => ret.written.data = ret.merged
\* every source key of the mapping is absent: a secret without data is created
C34_Witness ==
  /\ WroteSecret /\ ret.run.req.KeyMapping # {}
  /\ AbsentEntries(ret.run) = ret.run.req.KeyMapping
  /\ ret.run.secretData # {}
  /\ ret.wrote = "Create" /\ ret.written.exists /\ ret.written.data = {}
  /\ ret.run.events = <<EventReasonSecretSyncSuccess>>

\* C35: a successful Update of a secret that was there leaves every label but
\* the managed-by label and every annotation but source-path and synced-at as
\* they were, and adds no label but the managed-by label: it changes nothing
\* but the payload, that label, these two annotations and the type.
OtherLabelsOf(secret) == { kv \in secret.labels : kv[1] # ManagedByLabel }
C35_UpdateKeepsMetadata ==
  (WroteSecret /\ ret.wrote = "Update") =>
     /\ ret.before.exists /\ ret.written.exists
     /\ OtherLabelsOf(ret.written) = OtherLabelsOf(ret.before)
     /\ ret.written.annotations = ret.before.annotations
     /\ IsManaged(ret.written)
\* a secret somebody else made, with a label and an annotation of its own, is
\* updated: the payload and the engine's annotations change
C35_Witness ==
  /\ WroteSecret /\ ret.wrote = "Update"
  /\ ret.before.labels = OtherLabels /\ ret.before.annotations = ExternalAnnotations
  /\ ret.written.labels = OtherLabels \cup ManagedLabels
  /\ ret.written.annotations = ExternalAnnotations
  /\ ret.written.data # ret.before.data
  /\ ret.written.sourcePath # ret.before.sourcePath

\* C36: a successful run that finds a secret of the requested name without
\* the managed-by label updates it: the secret then holds every entry of the
\* merged payload and carries the managed-by label, and its event is waiting
\* for the reverse lookup; and the reverse lookup for an event of a secret
\* that carries the managed-by label finds every pod of the namespace whose
\* annotation parses and names the secret, whoever made the secret.
NamingPods(namespace, name) ==
  { p \in Pods : /\ pods[p].exists /\ PodNamespace(p) = namespace
                 /\ RequestedKey(p) = <<namespace, name>> }
C36_NoOwnershipCheck ==
  /\ (WroteSecret /\ ret.wrote = "Update" /\ ~IsManaged(ret.before)) =>
       /\ ret.before.exists
       /\ IsManaged(ret.written)
       /\ ret.merged \subseteq ret.written.data
       /\ SecretEvent(SecretObjectKey(ret.run.req), ret.written, TRUE) \in secretEvents
  /\ (listed.name # "" /\ ManagedLabels \subseteq listed.labels) =>
       NamingPods(listed.secretNamespace, listed.name) \subseteq listed.found
\* the reverse lookup for the engine's own write to a secret that was made
\* outside with a label of its own finds the pod
C36_Witness ==
  /\ listed.name # "" /\ listed.self
  /\ OtherLabels \cup ManagedLabels \subseteq listed.labels
  /\ {"external", "p1"} \subseteq producedBy[<<listed.secretNamespace, listed.name>>]
  /\ listed.found = {"p1"}
====
